---- MODULE Spec2Model ----
(***************************************************************************)
(* A model of AgentCli-go. The graph scheduler (internal/dag): the DAG of   *)
(* task nodes, its construction, its validation (missing dependency, cycle *)
(* detection) and its poll-based parallel executor. The tool-calling loop  *)
(* of one user turn (internal/agent, executeWithDAGStream): model calls,   *)
(* the final answer, and the sequential processing of tool calls. The     *)
(* context log of the agent over several turns (internal/agent/context.go) *)
(* and the streaming transport (internal/llm, ChatStreamWithTools).        *)
(***************************************************************************)
EXTENDS Integers, Sequences, FiniteSets, TLC

\* Largest number of nodes a graph of the model holds; node ids are 1..MaxNodes
\* and 0 is an id that is never a node of the graph.
MaxNodes == 3

VARIABLES
    nodes,        \* DAG.nodes: the ids present in the graph
    deps,         \* Node.Dependencies, a sequence of ids per node
    status,       \* Node.Status
    input,        \* Node.Input, a key-value map
    output,       \* Node.Output, a key-value map
    nodeError,    \* Node.Error
    handler,      \* Node.Handler
    parallelNum,  \* DAG.parallelNum
    ctxDone,      \* whether execCtx (deadline or caller's cancel) is done
    pc,           \* position of the caller of DAG.Execute
    result,       \* what DAG.Execute / DAG.Validate returned
    totalNodes,   \* executeNodes: totalNodes
    completed,    \* executeNodes: completed
    errChan,      \* executeNodes: errChan
    semaphore,    \* executeNodes: number of tokens held in semaphore
    gstate,       \* the goroutine launched for each node by executeNodes
    inputCopy,    \* Node.Execute: the inputCopy handed to the handler
    calls,        \* number of times each node's handler was invoked
    xstate,       \* a caller invoking Node.Execute directly on a node
    atExpiry,     \* what the run was at when ctx became done: whether some node
                  \* was not completed, and whether some pending node had not
                  \* been selected into a batch
    addArg,       \* the node handed to the last DAG.AddNode call
    request,      \* the tool calls the backend asks for whenever it asks for any
    lpc,          \* position of executeWithDAGStream in its loop
    iter,         \* executeWithDAGStream: i
    messages,     \* executeWithDAGStream: messages
    choice,       \* executeWithDAGStream: choice.Message of the last response
    toolIdx,      \* position of the range loop in choice.Message.ToolCalls
    emitted,      \* the chunks handed to onChunk, in order
    contextEntries, \* Agent.contextEntries
    turn,         \* what executeWithDAGStream returned
    modelCalls,   \* number of llmClient.Chat calls made in the turn
    executed,     \* ids of the tool calls whose capability was executed, in order
    toolsMark,    \* number of chunks emitted when the last tool call of the
                  \* current response had been processed
    conversationHistory, \* ProcessRequestStream: conversationHistory
    onChunkErr,   \* the chunks for which the caller's onChunk returns an error
    cancelled,    \* whether the caller's ctx of the turn is done
    turnNo,       \* number of ProcessRequestStream calls made on the agent
    consumed,     \* the entries the last ConsumeContextLog call returned
    recArg,       \* the arguments of a recordToolCallContext call
    mutex,        \* Agent.contextMu: the goroutine that holds it
    goroutines,   \* the goroutines that call the methods of the context log
    logHistory,   \* the entries appended to the log and the texts returned
    wire,         \* the HTTP response the backend gives ChatStreamWithTools
    hasOnChunk,   \* ChatStreamWithTools: onChunk != nil
    spc,          \* position of ChatStreamWithTools
    spos,         \* number of lines ChatStreamWithTools has read off the body
    fullContent,  \* ChatStreamWithTools: fullContent
    delivered,    \* the arguments onChunk was called with by the transport
    sresult       \* what ChatStreamWithTools returned

\* the variables of the tool-calling loop
turnVars == <<request, lpc, iter, messages, choice, toolIdx, emitted,
              contextEntries, turn, modelCalls, executed, toolsMark,
              conversationHistory, onChunkErr, cancelled, turnNo, consumed,
              recArg, mutex, goroutines, logHistory>>

\* the variables of the callers of the context log's methods
logVars == <<recArg, mutex, goroutines, logHistory>>

\* what a step of the loop leaves as it is: the caller's arguments and ctx, and
\* what the agent's other methods were called with and returned
turnEnv == <<conversationHistory, onChunkErr, cancelled, turnNo, consumed,
             logVars>>

\* the variables of the streaming transport
streamVars == <<wire, hasOnChunk, spc, spos, fullContent, delivered, sresult>>

\* the variables of the graph scheduler
dagVars == <<nodes, deps, status, input, output, nodeError, handler, parallelNum,
             ctxDone, pc, result, totalNodes, completed, errChan, semaphore,
             gstate, inputCopy, calls, xstate, atExpiry, addArg>>

vars == <<dagVars, turnVars, streamVars>>

graphVars == <<nodes, deps, handler, parallelNum>>

----------------------------------------------------------------------------
\* NodeStatus values
NodeStatusPending == "pending"
NodeStatusRunning == "running"
NodeStatusCompleted == "completed"
NodeStatusFailed == "failed"
NodeStatusSkipped == "skipped"

NodeStatus == {NodeStatusPending, NodeStatusRunning, NodeStatusCompleted,
               NodeStatusFailed, NodeStatusSkipped}

\* map[string]interface{}: a function from a finite set of keys
EmptyMap == << >>

\* n.Input[key] = value for every key of m, in any order
SetInputAll(in, m) ==
    [k \in (DOMAIN in) \cup (DOMAIN m) |-> IF k \in DOMAIN m THEN m[k] ELSE in[k]]

\* all enumerations of a finite set without repetition
RECURSIVE Perms(_)
Perms(S) ==
    IF S = {} THEN {<< >>}
    ELSE UNION {{<<x>> \o p : p \in Perms(S \ {x})} : x \in S}

\* the ascending enumeration of a set of ids
Asc(S) == CHOOSE p \in Perms(S) : \A i, j \in DOMAIN p : i < j => p[i] < p[j]

Range(s) == {s[i] : i \in DOMAIN s}

----------------------------------------------------------------------------
\* DAG.Validate and DAG.detectCycle

\* Mutant: a node's dependency on itself is taken for a dependency that is absent.
DepExistsNotSelf(n, depID) == depID \in nodes \ {n}

\* _, exists := d.nodes[depID]
DepExists(n, depID) == depID \in nodes

\* the first loop of Validate: some declared dependency is absent
MissingDependency ==
    \E n \in nodes : \E i \in DOMAIN deps[n] : ~DepExists(n, deps[n][i])

\* Mutant: the recursion-stack marker is never cleared.
PopRecStackNever(recStack, nodeID) == recStack

\* recStack[nodeID] = false
PopRecStack(recStack, nodeID) == recStack \ {nodeID}

\* detectCycleUtil: the loop over node.Dependencies from index i on; visited and
\* recStack are the sets of ids marked true.
RECURSIVE detectCycleUtilFrom(_, _, _, _)
detectCycleUtilFrom(nodeID, i, visited, recStack) ==
    IF i > Len(deps[nodeID])
    THEN [found |-> FALSE, visited |-> visited,
          recStack |-> PopRecStack(recStack, nodeID)]
    ELSE LET depID == deps[nodeID][i] IN
         IF depID \notin visited
         THEN LET r == detectCycleUtilFrom(depID, 1, visited \cup {depID},
                                           recStack \cup {depID})
              IN  IF r.found THEN r
                  ELSE detectCycleUtilFrom(nodeID, i + 1, r.visited, r.recStack)
         ELSE IF depID \in recStack
              THEN [found |-> TRUE, visited |-> visited, recStack |-> recStack]
              ELSE detectCycleUtilFrom(nodeID, i + 1, visited, recStack)

detectCycleUtil(nodeID, visited, recStack) ==
    detectCycleUtilFrom(nodeID, 1, visited \cup {nodeID}, recStack \cup {nodeID})

\* detectCycle: the loop over d.nodes, in the order `order` (Go iterates a map in
\* an unspecified order), from index i on.
RECURSIVE detectCycleFrom(_, _, _, _)
detectCycleFrom(order, i, visited, recStack) ==
    IF i > Len(order) THEN FALSE
    ELSE IF order[i] \notin visited
         THEN LET r == detectCycleUtil(order[i], visited, recStack)
              IN  r.found \/ detectCycleFrom(order, i + 1, r.visited, r.recStack)
         ELSE detectCycleFrom(order, i + 1, visited, recStack)

detectCycle(order) == detectCycleFrom(order, 1, {}, {})

\* Mutant: Validate finds nothing wrong with any graph.
ValidateNothing(order) == "nil"

\* Validate: "missing", "cycle" or "nil" (no error)
Validate(order) ==
    IF MissingDependency THEN "missing"
    ELSE IF detectCycle(order) THEN "cycle"
    ELSE "nil"

----------------------------------------------------------------------------
\* Node and the helpers of the executor

\* A NodeHandler: kind "nil" is a node without handler, "ok" a handler that
\* returns `out` and no error, "fail" a handler that returns an error.
Handler(kind, out) == [kind |-> kind, out |-> out]

\* the error values Execute can return; node is 0 when the error names no node
Err(kind, n) == [err |-> kind, node |-> n]
NoResult == Err("none", 0)
Success == Err("nil", 0)

\* Node.IsCompleted, Node.IsFailed
IsCompleted(n) == status[n] = NodeStatusCompleted
IsFailed(n) == status[n] = NodeStatusFailed

\* Mutant: the dependencies are not looked at.
DepsCompletedIgnored(n) == TRUE

\* Node.CanExecute: the loop over n.Dependencies
DepsCompleted(n) ==
    \A i \in DOMAIN deps[n] :
        deps[n][i] \in nodes => IsCompleted(deps[n][i])

\* Mutant: a node is executable whatever its status.
CanExecuteWhateverStatus(n) == DepsCompleted(n)

\* Node.CanExecute
CanExecute(n) == DepsCompleted(n) /\ status[n] = NodeStatusPending

\* DAG.getExecutableNodes
getExecutableNodes == {n \in nodes : CanExecute(n)}

\* DAG.hasFailedNodes
hasFailedNodes == \E n \in nodes : IsFailed(n)

\* DAG.getCompletedCount
getCompletedCount == Cardinality({n \in nodes : IsCompleted(n) \/ IsFailed(n)})

\* DAG.GetResults
GetResults == [id \in nodes |-> output[id]]

\* Mutant: the dependencies are merged in the reverse of the declared order.
RECURSIVE prepareReversed(_, _, _)
prepareReversed(n, i, in) ==
    IF i > Len(deps[n]) THEN in
    ELSE LET depID == deps[n][Len(deps[n]) + 1 - i] IN
         prepareReversed(n, i + 1,
             IF depID \in nodes THEN SetInputAll(in, output[depID]) ELSE in)

\* DAG.prepareDependencyOutputs: the loop over node.Dependencies from index i on
RECURSIVE prepareFrom(_, _, _)
prepareFrom(n, i, in) ==
    IF i > Len(deps[n]) THEN in
    ELSE LET depID == deps[n][i] IN
         prepareFrom(n, i + 1,
             IF depID \in nodes THEN SetInputAll(in, output[depID]) ELSE in)

\* DAG.prepareDependencyOutputs: the node's input after the merge
prepareDependencyOutputs(n) == prepareFrom(n, 1, input[n])

\* Mutant: Node.Execute does not look at the node's status.
NotPendingNever(n) == FALSE

\* Mutant: only a running node is refused.
NotPendingOnlyRunning(n) == status[n] = NodeStatusRunning

\* n.Status != NodeStatusPending
NotPending(n) == status[n] # NodeStatusPending

\* Node.Execute up to the handler call, for a node whose input is `in`: a node
\* that is not pending is left alone (the caller gets an error), a pending one
\* becomes running and its input is copied for the handler.
NodeExecuteStart(n, in) ==
    /\ input' = [input EXCEPT ![n] = in]
    /\ IF NotPending(n)
       THEN UNCHANGED <<status, inputCopy, calls>>
       ELSE /\ status' = [status EXCEPT ![n] = NodeStatusRunning]
            /\ inputCopy' = [inputCopy EXCEPT ![n] = in]
            /\ calls' = [calls EXCEPT ![n] =
                            IF handler[n].kind = "nil" THEN @ ELSE @ + 1]

----------------------------------------------------------------------------
\* The handlers of executeWithDAG (agent.go). A text is the sequence of its
\* tokens; a handler of these kinds carries, as `out`, what SimpleQuery
\* returns to it.

\* the kinds of the handlers of the nodes think, decision, tool and summary
PipelineKinds == <<"think", "decision", "tool", "summary">>

\* what SimpleQuery returns when it returns an error
QueryError == <<"SimpleQuery error">>

\* the keys a handler reads off its input with a type assertion that is not
\* checked: input[key].(string), input["results"].([]string)
ReadsOf(kind) ==
    CASE kind = "think" -> {"user_input", "intention"}
      [] kind = "decision" -> {"thinking", "user_input"}
      [] kind = "tool" -> {"plan"}
      [] kind = "summary" -> {"results", "user_input"}
      [] OTHER -> {}

\* strings.Index, from 1, 0 when the token is not in the text
Index(text, token) ==
    IF \E i \in DOMAIN text : text[i] = token
    THEN CHOOSE i \in DOMAIN text :
            text[i] = token /\ \A j \in 1..(i - 1) : text[j] # token
    ELSE 0

\* strings.LastIndex, from 1, 0 when the token is not in the text
LastIndex(text, token) ==
    IF \E i \in DOMAIN text : text[i] = token
    THEN CHOOSE i \in DOMAIN text :
            text[i] = token /\ \A j \in (i + 1)..Len(text) : text[j] # token
    ELSE 0

\* extractJSON: the text from the first [ (or, without one, the first {) to
\* the last ] (or, without one, the last }), the whole text when there is no
\* such part
extractJSON(text) ==
    LET start == IF Index(text, "[") # 0 THEN Index(text, "[")
                 ELSE Index(text, "{")
        end == IF LastIndex(text, "]") # 0 THEN LastIndex(text, "]")
               ELSE LastIndex(text, "}")
    IN  IF start = 0 THEN text
        ELSE IF end = 0 \/ end <= start THEN text
        ELSE SubSeq(text, start, end)

\* json.Unmarshal of a plan into the slice of tool calls: an array of calls
\* gives its calls, anything else is an error
UnmarshalPlan(planStr) ==
    IF /\ Len(planStr) >= 2
       /\ planStr[1] = "[" /\ planStr[Len(planStr)] = "]"
       /\ \A i \in 2..(Len(planStr) - 1) : planStr[i] = "call"
    THEN [err |-> FALSE, toolCalls |-> SubSeq(planStr, 2, Len(planStr) - 1)]
    ELSE [err |-> TRUE, toolCalls |-> << >>]

\* a map literal of two keys
Map2(k1, v1, k2, v2) == [k \in {k1, k2} |-> IF k = k1 THEN v1 ELSE v2]

\* input[key] of a map[string]interface{}: nil when the key is absent
Lookup(in, key) == IF key \in DOMAIN in THEN in[key] ELSE <<"nil">>

\* ToolHandler.Execute after it has read the plan: a plan that does not
\* unmarshal gives the empty results and nothing else; otherwise every call
\* gives one result, and user_input is handed on
ToolHandlerExecute(in) ==
    LET parsed == UnmarshalPlan(extractJSON(in["plan"])) IN
    IF parsed.err
    THEN [k \in {"results"} |-> << >>]
    ELSE Map2("results", [i \in DOMAIN parsed.toolCalls |-> <<"tool result">>],
              "user_input", Lookup(in, "user_input"))

\* the handler of n panics on a key it reads: the type assertion finds nil
HandlerPanics(n) ==
    ~(ReadsOf(handler[n].kind) \subseteq DOMAIN inputCopy[n])

\* the handler of n returns an error: the stub that fails, and the handlers
\* whose SimpleQuery fails
HandlerFailed(n) ==
    \/ handler[n].kind = "fail"
    \/ /\ handler[n].kind \in {"think", "decision", "summary"}
       /\ handler[n].out = QueryError

\* the map the handler of n returns when it returns no error
HandlerOutput(n) ==
    LET in == inputCopy[n] IN
    CASE handler[n].kind = "think" ->
            Map2("thinking", handler[n].out, "user_input", in["user_input"])
      [] handler[n].kind = "decision" ->
            Map2("plan", handler[n].out, "user_input", in["user_input"])
      [] handler[n].kind = "tool" -> ToolHandlerExecute(in)
      [] handler[n].kind = "summary" -> [k \in {"result"} |-> handler[n].out]
      [] OTHER -> handler[n].out

----------------------------------------------------------------------------
\* Node.Execute from the handler's return on
NodeExecuteReturn(n) ==
    IF HandlerFailed(n)
    THEN /\ status' = [status EXCEPT ![n] = NodeStatusFailed]
         /\ nodeError' = [nodeError EXCEPT ![n] = "handlerError"]
         /\ UNCHANGED output
    ELSE /\ status' = [status EXCEPT ![n] = NodeStatusCompleted]
         /\ output' = [output EXCEPT ![n] =
                          IF handler[n].kind = "nil" THEN @ ELSE HandlerOutput(n)]
         /\ UNCHANGED nodeError

\* Mutant: Node.Execute returns the handler's error as it is.
NodeExecuteErrorUnwrapped(n) ==
    IF HandlerFailed(n) THEN Err("handlerError", 0) ELSE Success

\* the error Node.Execute returns for a handler of this kind
NodeExecuteError(n) ==
    IF HandlerFailed(n) THEN Err("nodeFailed", n) ELSE Success

----------------------------------------------------------------------------
\* DAG.Execute

\* the goroutines of the current batch that wg.Wait() waits for
Unfinished == {n \in nodes : gstate[n] \in {"spawned", "running"}}

\* the nodes selected in a batch since Execute was called
Launched == {n \in nodes : gstate[n] # "none"}

\* Execute returns err
Return(err) ==
    /\ pc' = "done"
    /\ result' = err

\* Execute: Validate, then executeNodes up to its loop
ExecuteCall ==
    /\ pc = "idle"
    /\ \E order \in Perms(nodes) :
        LET v == Validate(order) IN
        IF v # "nil"
        THEN /\ Return(Err(v, 0))
             /\ UNCHANGED <<totalNodes, completed, errChan, semaphore>>
        ELSE /\ pc' = "loop"
             /\ totalNodes' = Cardinality(nodes)
             /\ completed' = 0
             /\ errChan' = << >>
             /\ semaphore' = 0
             /\ UNCHANGED result
    /\ UNCHANGED <<addArg, turnVars, streamVars>>
    /\ UNCHANGED <<graphVars, status, input, output, nodeError, ctxDone, gstate,
                   inputCopy, calls, xstate, atExpiry>>

\* Mutant: the loop does not look at the context.
CtxCheckNever == FALSE

\* select { case <-ctx.Done(): ... default: }
CtxCheck == ctxDone

\* executeNodes: one pass of the loop from its condition to the launch of the
\* batch (or to a return, or to the sleep)
LoopTop ==
    /\ pc = "loop"
    /\ IF completed >= totalNodes
       THEN Return(Success) /\ UNCHANGED gstate
       ELSE IF CtxCheck
       THEN Return(Err("ctx", 0)) /\ UNCHANGED gstate
       ELSE IF getExecutableNodes = {}
       THEN IF hasFailedNodes
            THEN Return(Err("failedNodes", 0)) /\ UNCHANGED gstate
            ELSE pc' = "sleep" /\ UNCHANGED <<result, gstate>>
       ELSE /\ pc' = "wait"
            /\ gstate' = [n \in nodes |->
                             IF n \in getExecutableNodes THEN "spawned"
                             ELSE gstate[n]]
            /\ UNCHANGED result
    /\ UNCHANGED <<addArg, turnVars, streamVars>>
    /\ UNCHANGED <<graphVars, status, input, output, nodeError, ctxDone,
                   totalNodes, completed, errChan, semaphore, inputCopy, calls,
                   xstate, atExpiry>>

\* time.Sleep(100 * time.Millisecond); continue
Wake ==
    /\ pc = "sleep"
    /\ pc' = "loop"
    /\ UNCHANGED <<addArg, turnVars, streamVars>>
    /\ UNCHANGED <<graphVars, status, input, output, nodeError, ctxDone, result,
                   totalNodes, completed, errChan, semaphore, gstate, inputCopy,
                   calls, xstate, atExpiry>>

\* Mutant: the admission gate admits everyone.
SemaphoreFreeAlways == TRUE

\* Mutant: the semaphore admits one goroutine when parallelNum is 0.
SemaphoreFreeOrEmpty == semaphore < parallelNum \/ semaphore = 0

\* semaphore <- struct{}{} can proceed: the channel holds fewer than
\* parallelNum tokens
SemaphoreFree == semaphore < parallelNum

\* A goroutine of the batch: acquires the semaphore, merges the dependencies'
\* outputs into the node's input and enters Node.Execute. When the node is not
\* pending Node.Execute returns an error at once, and the goroutine sends it,
\* releases the semaphore and ends.
GoStart(n) ==
    /\ gstate[n] = "spawned"
    /\ SemaphoreFree
    /\ NodeExecuteStart(n, prepareDependencyOutputs(n))
    /\ IF NotPending(n)
       THEN /\ errChan' = Append(errChan, Err("notPending", n))
            /\ gstate' = [gstate EXCEPT ![n] = "finished"]
            /\ UNCHANGED semaphore
       ELSE /\ gstate' = [gstate EXCEPT ![n] = "running"]
            /\ semaphore' = semaphore + 1
            /\ UNCHANGED errChan
    /\ UNCHANGED <<addArg, turnVars, streamVars>>
    /\ UNCHANGED <<graphVars, output, nodeError, ctxDone, pc, result, totalNodes,
                   completed, xstate, atExpiry>>

\* Mutant: the semaphore's token is never taken back out.
ReleaseSemaphoreNever == semaphore

\* defer func() { <-semaphore }()
ReleaseSemaphore == semaphore - 1

\* The handler of a goroutine's node returns: Node.Execute records the outcome,
\* the goroutine sends the error if any, releases the semaphore and ends.
GoFinish(n) ==
    /\ gstate[n] = "running"
    /\ ~HandlerPanics(n)
    /\ NodeExecuteReturn(n)
    /\ errChan' = IF NodeExecuteError(n) = Success THEN errChan
                  ELSE Append(errChan, NodeExecuteError(n))
    /\ semaphore' = ReleaseSemaphore
    /\ gstate' = [gstate EXCEPT ![n] = "finished"]
    /\ UNCHANGED <<addArg, turnVars, streamVars>>
    /\ UNCHANGED <<graphVars, input, ctxDone, pc, result, totalNodes, completed,
                   inputCopy, calls, xstate, atExpiry>>

\* Mutant: wg.Wait() returns while goroutines of the batch are running.
WaitReturnsAtOnce == TRUE

\* wg.Wait() can return: every goroutine of the batch has called wg.Done()
WaitDone == Unfinished = {}

\* The handler of a goroutine's node panics: the panic is not recovered, and
\* the process ends with the node running.
HandlerPanic(n) ==
    /\ gstate[n] = "running"
    /\ HandlerPanics(n)
    /\ gstate' = [gstate EXCEPT ![n] = "panicked"]
    /\ pc' = "panicked"
    /\ UNCHANGED <<addArg, turnVars, streamVars>>
    /\ UNCHANGED <<graphVars, status, input, output, nodeError, ctxDone, result,
                   totalNodes, completed, errChan, semaphore, inputCopy, calls,
                   xstate, atExpiry>>

\* Mutant: the error channel is never looked at.
ErrReceivedNever == FALSE

\* select { case err := <-errChan: ... default: }: an error is waiting
ErrReceived == errChan # << >>

\* wg.Wait() returns; the error check and the update of the completed count
AfterWait ==
    /\ pc = "wait"
    /\ WaitDone
    /\ IF ErrReceived
       THEN /\ Return(Head(errChan))
            /\ errChan' = Tail(errChan)
            /\ UNCHANGED completed
       ELSE /\ pc' = "loop"
            /\ completed' = getCompletedCount
            /\ UNCHANGED <<result, errChan>>
    /\ UNCHANGED <<addArg, turnVars, streamVars>>
    /\ UNCHANGED <<graphVars, status, input, output, nodeError, ctxDone,
                   totalNodes, semaphore, gstate, inputCopy, calls, xstate,
                   atExpiry>>

\* atExpiry while the context is not done
NotExpired == [incomplete |-> FALSE, unselected |-> FALSE]

\* The deadline of context.WithTimeout passes, or the caller cancels its context.
CtxExpire ==
    /\ ~ctxDone
    /\ pc \notin {"done", "panicked"}
    /\ ctxDone' = TRUE
    /\ atExpiry' = [incomplete |-> \E n \in nodes : ~IsCompleted(n),
                    unselected |-> \E n \in nodes \ Launched :
                                      status[n] = NodeStatusPending]
    /\ UNCHANGED <<addArg, turnVars, streamVars>>
    /\ UNCHANGED <<graphVars, status, input, output, nodeError, pc, result,
                   totalNodes, completed, errChan, semaphore, gstate, inputCopy,
                   calls, xstate>>

\* Node.Execute called on a node directly, outside of DAG.Execute
NodeExecuteDirect(n) ==
    /\ xstate[n] = "idle"
    /\ NodeExecuteStart(n, input[n])
    /\ xstate' = [xstate EXCEPT ![n] =
                     IF NotPending(n) THEN "idle" ELSE "running"]
    /\ UNCHANGED <<addArg, turnVars, streamVars>>
    /\ UNCHANGED <<graphVars, output, nodeError, ctxDone, pc, result, totalNodes,
                   completed, errChan, semaphore, gstate, atExpiry>>

\* the handler of a directly executed node returns
NodeExecuteDirectReturn(n) ==
    /\ xstate[n] = "running"
    /\ NodeExecuteReturn(n)
    /\ xstate' = [xstate EXCEPT ![n] = "idle"]
    /\ UNCHANGED <<addArg, turnVars, streamVars>>
    /\ UNCHANGED <<graphVars, input, ctxDone, pc, result, totalNodes, completed,
                   errChan, semaphore, gstate, inputCopy, calls, atExpiry>>

\* The caller has the result of Execute and may call Execute again, with a
\* context of its own.
ExecuteAgain ==
    /\ pc = "done"
    /\ pc' = "idle"
    /\ result' = NoResult
    /\ ctxDone' = FALSE
    /\ atExpiry' = NotExpired
    /\ gstate' = [n \in nodes |-> "none"]
    /\ UNCHANGED <<addArg, turnVars, streamVars>>
    /\ UNCHANGED <<graphVars, status, input, output, nodeError, totalNodes,
                   completed, errChan, semaphore, inputCopy, calls, xstate>>

\* DAG.Validate called on its own
ValidateCall ==
    /\ pc = "idle"
    /\ \E order \in Perms(nodes) : Return(Err(Validate(order), 0))
    /\ UNCHANGED <<addArg, turnVars, streamVars>>
    /\ UNCHANGED <<graphVars, status, input, output, nodeError, ctxDone,
                   totalNodes, completed, errChan, semaphore, gstate, inputCopy,
                   calls, xstate, atExpiry>>

----------------------------------------------------------------------------
\* DAG.AddNode

\* Mutant: AddNode does not look for the id in the map.
ExistsNever(id) == FALSE

\* _, exists := d.nodes[node.ID]
Exists(id) == id \in nodes

\* d.nodes[id] = ..., for one field of the node: the map f with v under id
Put(f, id, v) == [n \in (DOMAIN f) \cup {id} |-> IF n = id THEN v ELSE f[n]]

\* addArg before any AddNode call
NoNode == [ID |-> 0, Dependencies |-> << >>, Handler |-> Handler("nil", EmptyMap)]

\* DAG.AddNode(node), for a node made by NewNode, AddDependency and SetHandler:
\* the duplicate error when the id is present, the insertion otherwise.
AddNode(node) ==
    /\ pc = "idle"
    /\ addArg' = node
    /\ IF Exists(node.ID)
       THEN /\ result' = Err("duplicate", node.ID)
            /\ UNCHANGED <<nodes, deps, status, input, output, nodeError,
                           handler, gstate, inputCopy, calls, xstate>>
       ELSE /\ result' = Success
            /\ nodes' = nodes \cup {node.ID}
            /\ deps' = Put(deps, node.ID, node.Dependencies)
            /\ handler' = Put(handler, node.ID, node.Handler)
            /\ status' = Put(status, node.ID, NodeStatusPending)
            /\ input' = Put(input, node.ID, EmptyMap)
            /\ output' = Put(output, node.ID, EmptyMap)
            /\ nodeError' = Put(nodeError, node.ID, "nil")
            /\ gstate' = Put(gstate, node.ID, "none")
            /\ inputCopy' = Put(inputCopy, node.ID, EmptyMap)
            /\ calls' = Put(calls, node.ID, 0)
            /\ xstate' = Put(xstate, node.ID, "idle")
    /\ UNCHANGED <<parallelNum, ctxDone, pc, totalNodes, completed, errChan,
                   semaphore, atExpiry, turnVars, streamVars>>

----------------------------------------------------------------------------
\* The tool-calling loop of one user turn (Agent.executeWithDAGStream)

\* maxIterations := 10
maxIterations == 10

\* Largest number of tool calls in one model response
MaxToolCalls == 2

\* llm.Message
Message(role, content, toolCalls, toolCallID) ==
    [Role |-> role, Content |-> content, ToolCalls |-> toolCalls,
     ToolCallID |-> toolCallID]

\* llm.ToolCall, with its Function.Name and Function.Arguments
ToolCall(id, type, name, arguments) ==
    [ID |-> id, Type |-> type, Name |-> name, Arguments |-> arguments]

\* ToolCallID of a message that answers no tool call
NoID == << >>

\* choice before any response
NoMessage == Message("none", "", << >>, NoID)

\* the conversation histories a turn is given: none, and one earlier exchange
Histories ==
    {<< >>,
     <<Message("user", "earlier", << >>, NoID),
       Message("assistant", "reply", << >>, NoID)>>}

\* Mutant: the history is put after the request.
HistoryLast(history) ==
    <<Message("system", "prompt", << >>, NoID),
      Message("user", "request", << >>, NoID)>> \o history

\* the message list executeWithDAGStream begins with: the system prompt, the
\* history, and the user message with the analysis and the request
BuildMessages(history) ==
    <<Message("system", "prompt", << >>, NoID)>>
        \o history
        \o <<Message("user", "request", << >>, NoID)>>

\* a chunk handed to onChunk: the format of the text and what is put in it
Chunk(kind, text) == [kind |-> kind, text |-> text]

\* raw argument payloads: a JSON object that has the parameters of every
\* capability, the JSON null, and a text that is not JSON
ArgsObject == "{command: ls, filepath: a.txt}"
ArgsNull == "null"
ArgsBroken == "{command:"
Arguments == {ArgsObject, ArgsNull, ArgsBroken}

\* A value of a map[string]interface{} that json.Unmarshal made: a string with
\* its text, a number with the text fmt.Sprint gives it, an array with its
\* items, or null, which a type assertion cannot tell from an absent key. A
\* text is the sequence of its tokens, and the token " " is white space.
Value(type, text, items) == [type |-> type, text |-> text, items |-> items]
Str(text) == Value("string", text, << >>)
Num(text) == Value("number", text, << >>)
Arr(items) == Value("array", << >>, items)
Null == Value("null", << >>, << >>)

\* params[key]
Param(params, key) == IF key \in DOMAIN params THEN params[key] ELSE Null

\* Mutant: every payload unmarshals.
jsonUnmarshalAnything(arguments) ==
    [err |-> FALSE, params |-> EmptyMap]

\* json.Unmarshal([]byte(funcArgs), &params) into a map[string]interface{}:
\* an object gives its map, null gives the nil map without error, anything
\* else is an error
jsonUnmarshal(arguments) ==
    IF arguments = ArgsObject
    THEN [err |-> FALSE,
          params |-> [k \in {"command", "filepath"} |->
                         IF k = "command" THEN Str(<<"ls">>)
                         ELSE Str(<<"a.txt">>)]]
    ELSE IF arguments = ArgsNull
    THEN [err |-> FALSE, params |-> EmptyMap]
    ELSE [err |-> TRUE, params |-> EmptyMap]

\* the names registered by NewAgent under the configuration of the model
Registered == {"execute_command", "read_file"}

\* a name the registry does not have
Unregistered == "no_such_tool"

\* Mutant: the registry finds a capability under every name.
RegistryGetAlways(name) == TRUE

\* ToolRegistry.Get: whether a capability is registered under the name
RegistryGet(name) == name \in Registered

\* what Tool.Execute returns: an error with its text and no result, or no
\* error and a result. A result of execute_command is a map with the success
\* flag and, when the command failed, the error text.
ToolError(text) ==
    [err |-> TRUE, errText |-> text,
     result |-> [isMap |-> FALSE, success |-> FALSE, error |-> << >>]]
ToolResult(success, error) ==
    [err |-> FALSE, errText |-> << >>,
     result |-> [isMap |-> TRUE, success |-> success, error |-> error]]

\* the results of a shell command that ran and of one that was killed
ExecSucceeded == ToolResult(TRUE, << >>)
ExecKilled == ToolResult(FALSE, <<"signal: killed">>)

\* the result maps of a shell command that ran and of one that was killed, as
\* json.Marshal writes them
ResultSuccess == "{success: true}"
ResultKilled == "{success: false, error: killed}"

\* json.Marshal(result)
jsonMarshal(value) ==
    IF value = ExecSucceeded.result THEN ResultSuccess
    ELSE IF value = ExecKilled.result THEN ResultKilled
    ELSE "{success: false, error: exit status 1}"

\* whether a registered capability lacks the parameter it cannot do without:
\* execute_command wants a command that is a string and not the empty one
ParamMissing(name, params) ==
    IF name = "execute_command"
    THEN Param(params, "command").type # "string"
         \/ Param(params, "command").text = << >>
    ELSE "filepath" \notin DOMAIN params

\* Tool.Execute of a capability: an error when its parameter is missing, a
\* result otherwise (the command runs, the file is there); a shell command
\* whose ctx is done is killed, which is a result and not an error
ToolExecute(name, params) ==
    IF ParamMissing(name, params)
    THEN ToolError(<<"missing parameter">>)
    ELSE IF name = "execute_command" /\ cancelled
    THEN ExecKilled
    ELSE ExecSucceeded

\* strings.TrimSpace: the text without the white space at its ends
TrimSpace(text) ==
    LET black == {i \in DOMAIN text : text[i] # " "} IN
    IF black = {} THEN << >>
    ELSE SubSeq(text,
                CHOOSE i \in black : \A j \in black : i <= j,
                CHOOSE i \in black : \A j \in black : j <= i)

\* strings.Join(texts, " ")
RECURSIVE JoinSpace(_)
JoinSpace(texts) ==
    IF texts = << >> THEN << >>
    ELSE IF Len(texts) = 1 THEN texts[1]
    ELSE texts[1] \o <<" ">> \o JoinSpace(Tail(texts))

\* whether extractArgs takes the item of an array: a string that is not empty,
\* or a value of another type
ArgTaken(item) == item.type # "string" \/ item.text # << >>

\* extractArgs: no args for nil and for a blank string; a string that is not
\* blank is the one arg, as it is; of an array the strings that are not empty
\* and what fmt.Sprint makes of the other items; anything else is one arg,
\* what fmt.Sprint makes of it. (A []string is not among the values that
\* json.Unmarshal makes.)
extractArgs(raw) ==
    CASE raw.type = "null" -> << >>
      [] raw.type = "array" ->
            LET taken == SelectSeq(raw.items, ArgTaken)
            IN  [i \in DOMAIN taken |-> taken[i].text]
      [] raw.type = "string" ->
            IF TrimSpace(raw.text) = << >> THEN << >> ELSE <<raw.text>>
      [] OTHER -> <<raw.text>>

\* formatExecuteCommand: the trimmed command, a space and the args joined
\* with spaces; the command alone without args; "" without a command
formatExecuteCommand(params) ==
    LET raw == Param(params, "command")
        command == IF raw.type = "string" THEN TrimSpace(raw.text) ELSE << >>
        args == extractArgs(Param(params, "args"))
    IN  IF command = << >> THEN << >>
        ELSE IF args = << >> THEN command
        ELSE command \o <<" ">> \o JoinSpace(args)

\* An entry of the context log, "[kind] content"; at is the turn it was
\* appended in, which is not in its text.
Entry(kind, content) == [kind |-> kind, content |-> content, at |-> turnNo]

\* appendContextEntry: the log after the call; content that is blank is not
\* appended
appendContextEntry(kind, content) ==
    IF TrimSpace(content) = << >> THEN contextEntries
    ELSE Append(contextEntries, Entry(kind, TrimSpace(content)))

\* Mutant: the success flag is looked at first and, when there is one, wins.
OutcomeSuccessFirst(res) ==
    IF res.result.isMap
    THEN <<" | success=", IF res.result.success THEN "true" ELSE "false">>
    ELSE IF res.err THEN <<" | error=">> \o res.errText
    ELSE << >>

\* what recordToolCallContext puts after the command line: the error that
\* Execute returned; or, for a result that is a map, its success flag, which
\* the result's error text, when it is not empty, takes the place of
Outcome(res) ==
    IF res.err THEN <<" | error=">> \o res.errText
    ELSE IF ~res.result.isMap THEN << >>
    ELSE IF res.result.error # << >> THEN <<" | error=">> \o res.result.error
    ELSE <<" | success=", IF res.result.success THEN "true" ELSE "false">>

\* Mutant: the call of every capability is recorded.
recordEveryToolCallContext(toolName, params, res) ==
    Append(contextEntries, Entry(toolName, <<"called">>))

\* recordToolCallContext: the context log after the capability toolName,
\* called with params, returned res
recordToolCallContext(toolName, params, res) ==
    IF toolName # "execute_command" \/ formatExecuteCommand(params) = << >>
    THEN contextEntries
    ELSE appendContextEntry("execute_command",
                            formatExecuteCommand(params) \o Outcome(res))

\* the outcomes of the HTTP exchange of Client.Chat in iteration i: the request
\* fails, the status is not 200, the body is not JSON, the body has no choice,
\* or the body has one choice, which is an answer or the backend's tool calls
Contents == {"", "answer"}

WithIDs(req, i) ==
    [p \in 1..Len(req) |->
        ToolCall(<<i, p>>, req[p].Type, req[p].Name, req[p].Arguments)]

HTTPOutcomes(i) ==
    {[kind |-> k, message |-> NoMessage] :
        k \in {"neterr", "status", "badjson", "nochoices"}}
    \cup {[kind |-> "ok", message |-> Message("assistant", c, << >>, NoID)] :
            c \in Contents}
    \cup {[kind |-> "ok",
           message |-> Message("assistant", "", WithIDs(request, i), NoID)]}

\* Mutant: the exchange does not look at ctx.
ExchangesIgnoringCtx(i) == HTTPOutcomes(i)

\* the outcomes of the exchange under the ctx of the turn: once ctx is done,
\* client.Do and the read of the body return its error
Exchanges(i) ==
    IF cancelled
    THEN {h \in HTTPOutcomes(i) : h.kind = "neterr"}
    ELSE HTTPOutcomes(i)

\* the chunks the caller's onChunk returns an error for: none, the progress
\* text of the tool calls, or every chunk
OnChunkErrs == {"never", "progress", "always"}

\* onChunk(choice.Message.Content) returns nil
AnswerAccepted == onChunkErr # "always"

\* Client.Chat: the error, or the response with its choices
Chat(http) ==
    IF http.kind = "neterr" THEN [err |-> "send", choices |-> << >>]
    ELSE IF http.kind = "status" THEN [err |-> "status", choices |-> << >>]
    ELSE IF http.kind = "badjson" THEN [err |-> "parse", choices |-> << >>]
    ELSE IF http.kind = "nochoices" THEN [err |-> "nochoices", choices |-> << >>]
    ELSE [err |-> "nil", choices |-> <<http.message>>]

\* what executeWithDAGStream returns: the answer and the error
TurnResult(answer, err) == [answer |-> answer, err |-> err]

\* turn while executeWithDAGStream has not returned
NoTurnResult == TurnResult("", "none")

\* executeWithDAGStream returns
ReturnTurn(answer, err) ==
    /\ lpc' = "done"
    /\ turn' = TurnResult(answer, err)

\* Mutant: every tool call is processed, whatever its type.
IsFunctionAlways(toolCall) == TRUE

\* toolCall.Type == "function"
IsFunction(toolCall) == toolCall.Type = "function"

\* Mutant: no response is taken for the final answer.
NoToolCallsNever(message) == FALSE

\* len(choice.Message.ToolCalls) == 0
NoToolCalls(message) == Len(message.ToolCalls) = 0

\* Mutant: the final answer is handed to onChunk whatever it is.
NotEmptyAlways(content) == TRUE

\* choice.Message.Content != ""
NotEmpty(content) == content # ""

\* One iteration up to the tool calls: llmClient.Chat with the message list; an
\* error or a response without choices ends the turn; a message without tool
\* calls is the final answer, handed to onChunk (whose error, if it returns
\* one, ends the turn) and returned; otherwise the assistant message is
\* appended and the range loop over its tool calls begins.
ChatCall ==
    /\ lpc = "model"
    /\ modelCalls' = modelCalls + 1
    /\ \E http \in Exchanges(iter) :
        LET response == Chat(http) IN
        IF response.err # "nil"
        THEN /\ ReturnTurn("", "chatFailed")
             /\ UNCHANGED <<messages, choice, toolIdx, emitted>>
        ELSE IF Len(response.choices) = 0
        THEN /\ ReturnTurn("", "emptyResponse")
             /\ UNCHANGED <<messages, choice, toolIdx, emitted>>
        ELSE LET message == response.choices[1] IN
             /\ choice' = message
             /\ IF NoToolCalls(message)
                THEN /\ IF NotEmpty(message.Content)
                        THEN /\ emitted' = Append(emitted,
                                               Chunk("content", message.Content))
                             /\ IF AnswerAccepted
                                THEN ReturnTurn(message.Content, "nil")
                                ELSE ReturnTurn("", "onChunk")
                        ELSE /\ ReturnTurn(message.Content, "nil")
                             /\ UNCHANGED emitted
                     /\ UNCHANGED <<messages, toolIdx>>
                ELSE /\ messages' = Append(messages,
                                          Message("assistant", message.Content,
                                                  message.ToolCalls, NoID))
                     /\ toolIdx' = 1
                     /\ lpc' = "tools"
                     /\ UNCHANGED <<emitted, turn>>
    /\ UNCHANGED <<dagVars, streamVars, turnEnv, request, iter, contextEntries,
                   executed, toolsMark>>

\* Mutant: what ends the processing of a tool call ends the turn.
ContinueAborts(chunks) ==
    /\ ReturnTurn("", "toolCall")
    /\ emitted' = chunks
    /\ UNCHANGED <<toolIdx, toolsMark>>

\* Mutant: an error of onChunk for progress text ends the turn.
ContinueUnlessRefused(chunks) ==
    IF onChunkErr # "never" /\ chunks # emitted
    THEN /\ ReturnTurn("", "onChunk")
         /\ emitted' = chunks
         /\ UNCHANGED <<toolIdx, toolsMark>>
    ELSE /\ toolIdx' = toolIdx + 1
         /\ lpc' = "tools"
         /\ emitted' = chunks
         /\ toolsMark' = Len(chunks)
         /\ UNCHANGED turn

\* continue, or the end of the body of the range loop: on to the next tool call
Continue(chunks) ==
    /\ toolIdx' = toolIdx + 1
    /\ lpc' = "tools"
    /\ emitted' = chunks
    /\ toolsMark' = Len(chunks)
    /\ UNCHANGED turn

\* Mutant: the tool message is put before the last message of the list.
InsertToolMessage(content, toolCall) ==
    messages' = Append(SubSeq(messages, 1, Len(messages) - 1),
                       Message("tool", content, << >>, toolCall.ID))
                \o <<messages[Len(messages)]>>

\* messages = append(messages, llm.Message{Role: "tool", ...})
AppendToolMessage(content, toolCall) ==
    messages' = Append(messages, Message("tool", content, << >>, toolCall.ID))

\* The body of the range loop for the next tool call, up to the call of the
\* capability: a call that is not a function call is passed over; the name is
\* announced; a payload that does not unmarshal, and a name the registry does
\* not have, are answered by a tool message; otherwise the capability starts.
ToolCallStart ==
    /\ lpc = "tools"
    /\ toolIdx <= Len(choice.ToolCalls)
    /\ LET toolCall == choice.ToolCalls[toolIdx]
           announced == Append(emitted, Chunk("tool", toolCall.Name))
       IN  IF ~IsFunction(toolCall)
           THEN /\ Continue(emitted)
                /\ UNCHANGED <<messages, executed>>
           ELSE IF jsonUnmarshal(toolCall.Arguments).err
           THEN /\ Continue(Append(announced, Chunk("failed", "parse")))
                /\ AppendToolMessage("parseError", toolCall)
                /\ UNCHANGED executed
           ELSE IF ~RegistryGet(toolCall.Name)
           THEN /\ Continue(Append(announced, Chunk("failed", "notFound")))
                /\ AppendToolMessage("notFound", toolCall)
                /\ UNCHANGED executed
           ELSE /\ lpc' = "exec"
                /\ emitted' = announced
                /\ executed' = Append(executed, toolCall.ID)
                /\ UNCHANGED <<messages, toolIdx, toolsMark, turn>>
    /\ UNCHANGED <<dagVars, streamVars, turnEnv, request, iter, choice,
                   contextEntries, modelCalls>>

\* The capability returns: the context log records a shell command, and the
\* error or the serialized result becomes a tool message.
ToolCallReturn ==
    /\ lpc = "exec"
    /\ LET toolCall == choice.ToolCalls[toolIdx]
           params == jsonUnmarshal(toolCall.Arguments).params
           res == ToolExecute(toolCall.Name, params)
       IN  /\ contextEntries' = recordToolCallContext(toolCall.Name, params, res)
           /\ IF res.err
              THEN /\ Continue(Append(emitted, Chunk("failed", "exec")))
                   /\ AppendToolMessage("execFailed", toolCall)
              ELSE /\ Continue(Append(emitted, Chunk("succeeded", "")))
                   /\ AppendToolMessage(jsonMarshal(res.result), toolCall)
    /\ UNCHANGED <<dagVars, streamVars, turnEnv, request, iter, choice,
                   modelCalls, executed>>

\* Mutant: the loop has one iteration more.
BudgetLeftOneMore(i) == i < maxIterations + 1

\* i < maxIterations
BudgetLeft(i) == i < maxIterations

\* The range loop is over: onChunk("\n"), i++ and the loop condition; when it
\* fails, the error of the exhausted budget is returned.
EndIteration ==
    /\ lpc = "tools"
    /\ toolIdx > Len(choice.ToolCalls)
    /\ emitted' = Append(emitted, Chunk("newline", ""))
    /\ iter' = iter + 1
    /\ IF BudgetLeft(iter + 1)
       THEN lpc' = "model" /\ UNCHANGED turn
       ELSE ReturnTurn("", "maxIterations")
    /\ UNCHANGED <<dagVars, streamVars, turnEnv, request, messages, choice,
                   toolIdx, contextEntries,
                   modelCalls, executed, toolsMark>>

\* The caller's ctx of the turn becomes done (cancel, or its deadline).
CancelTurn ==
    /\ lpc \in {"model", "tools", "exec"}
    /\ ~cancelled
    /\ cancelled' = TRUE
    /\ UNCHANGED <<dagVars, streamVars, request, lpc, iter, messages, choice,
                   toolIdx, emitted, contextEntries, turn, modelCalls, executed,
                   toolsMark, conversationHistory, onChunkErr, turnNo, consumed,
                   logVars>>

\* Largest number of ProcessRequestStream calls made on one agent
MaxTurns == 2

\* the separator strings.Join puts between two entries
Separator == [kind |-> "separator", content |-> <<"LF", "LF">>, at |-> 0]

\* strings.Join(entries, "\n\n"): the entries with a separator between each two
Join(entries) ==
    [i \in 1..(2 * Len(entries) - 1) |->
        IF i % 2 = 1 THEN entries[(i + 1) \div 2] ELSE Separator]

\* Mutant: the log is left as it is.
NilEntriesKept(entries) == entries

\* a.contextEntries = nil
NilEntries(entries) == << >>

\* Agent.ConsumeContextLog: the joined entries are returned and the log is
\* emptied
ConsumeContextLog ==
    /\ consumed' = Join(contextEntries)
    /\ contextEntries' = NilEntries(contextEntries)
    /\ UNCHANGED <<dagVars, streamVars, request, lpc, iter, messages, choice,
                   toolIdx, emitted, turn, modelCalls, executed, toolsMark,
                   conversationHistory, onChunkErr, cancelled, turnNo, logVars>>

\* the variables of a turn that a method of the context log leaves alone
loopVars == <<request, lpc, iter, messages, choice, toolIdx, emitted, turn,
              modelCalls, executed, toolsMark, conversationHistory, onChunkErr,
              cancelled, turnNo>>

\* recArg of a call: the name of the capability, the map it was called with,
\* what it returned, and whether recordToolCallContext has returned
RecArg(toolName, params, res, pos) ==
    [toolName |-> toolName, params |-> params, res |-> res, pc |-> pos]

\* recArg while recordToolCallContext is not called
NoRecArg == RecArg("", EmptyMap, ExecSucceeded, "none")

\* recordToolCallContext, called on its own
RecordCall ==
    /\ recArg.pc = "called"
    /\ contextEntries' =
          recordToolCallContext(recArg.toolName, recArg.params, recArg.res)
    /\ recArg' = [recArg EXCEPT !.pc = "returned"]
    /\ UNCHANGED <<dagVars, streamVars, loopVars, consumed, mutex, goroutines,
                   logHistory>>

\* The goroutines that call appendContextEntry, ConsumeContextLog and
\* resetContextLog on one agent
Goroutines == {"g1", "g2", "g3"}

\* The contents the goroutines append, each by one call, so that the entries
\* of the log can be told apart
EntryNames == {"e1", "e2", "e3"}

\* a goroutine: where it is, the content it appends, the text it joined
Goroutine(pos, content, joined) ==
    [pc |-> pos, content |-> content, joined |-> joined]

\* a goroutine that is in none of the methods
Idle == Goroutine("idle", << >>, << >>)

\* the contents that a call has been made with
Called ==
    {logHistory.appended[i].content : i \in DOMAIN logHistory.appended}
    \cup {goroutines[g].content : g \in Goroutines}

\* no method of the context log has been called by a goroutine
InitNoGoroutines ==
    /\ mutex = "free"
    /\ goroutines = [g \in Goroutines |-> Idle]
    /\ logHistory = [appended |-> << >>, returned |-> << >>]

\* nobody but the turn uses the context log
InitNoLog == recArg = NoRecArg /\ InitNoGoroutines

\* Mutant: Lock() returns whoever holds the mutex.
LockFreeAlways == TRUE

\* a.contextMu.Lock() can return: nobody holds the mutex
LockFree == mutex = "free"

\* a goroutine calls a method and comes to its Lock(); appendContextEntry has
\* trimmed its content by then
Call(g, method, content) ==
    /\ goroutines[g] = Idle
    /\ goroutines' = [goroutines EXCEPT
                         ![g] = Goroutine(method, TrimSpace(content), << >>)]
    /\ UNCHANGED <<contextEntries, mutex, logHistory>>
    /\ UNCHANGED <<dagVars, streamVars, loopVars, consumed, recArg>>

\* appendContextEntry is called with a content that is not blank
AppendCall(g, name) ==
    /\ <<name>> \notin Called
    /\ Call(g, "append.lock", <<" ", name, " ">>)

\* ConsumeContextLog is called
ConsumeCall(g) ==
    /\ g \in Goroutines
    /\ Call(g, "consume.lock", << >>)

\* resetContextLog is called
ResetCall(g) ==
    /\ g \in Goroutines
    /\ Call(g, "reset.lock", << >>)

\* a.contextMu.Lock() returns in a goroutine
Lock(g) ==
    /\ goroutines[g].pc \in {"append.lock", "consume.lock", "reset.lock"}
    /\ LockFree
    /\ mutex' = g
    /\ goroutines' = [goroutines EXCEPT
                         ![g].pc = CASE @ = "append.lock" -> "append"
                                     [] @ = "consume.lock" -> "consume"
                                     [] OTHER -> "reset"]
    /\ UNCHANGED <<contextEntries, logHistory>>
    /\ UNCHANGED <<dagVars, streamVars, loopVars, consumed, recArg>>

\* appendContextEntry under the mutex: the entry is appended, and the
\* deferred Unlock() runs
AppendEntry(g) ==
    /\ goroutines[g].pc = "append"
    /\ contextEntries' =
          Append(contextEntries, Entry("execute_command", goroutines[g].content))
    /\ logHistory' = [logHistory EXCEPT
                      !.appended = Append(@, Entry("execute_command",
                                                   goroutines[g].content))]
    /\ mutex' = "free"
    /\ goroutines' = [goroutines EXCEPT ![g] = Idle]
    /\ UNCHANGED <<dagVars, streamVars, loopVars, consumed, recArg>>

\* ConsumeContextLog under the mutex, up to strings.Join: with an empty log it
\* returns "", and the deferred Unlock() runs
ConsumeJoin(g) ==
    /\ goroutines[g].pc = "consume"
    /\ IF contextEntries = << >>
       THEN /\ mutex' = "free"
            /\ goroutines' = [goroutines EXCEPT ![g] = Idle]
       ELSE /\ goroutines' = [goroutines EXCEPT
                                ![g] = Goroutine("consume.clear", << >>,
                                                 Join(contextEntries))]
            /\ UNCHANGED mutex
    /\ UNCHANGED <<contextEntries, logHistory>>
    /\ UNCHANGED <<dagVars, streamVars, loopVars, consumed, recArg>>

\* ConsumeContextLog under the mutex, from a.contextEntries = nil on: the
\* joined text is returned, and the deferred Unlock() runs
ConsumeClear(g) ==
    /\ goroutines[g].pc = "consume.clear"
    /\ contextEntries' = NilEntries(contextEntries)
    /\ logHistory' = [logHistory EXCEPT
                      !.returned = Append(@, goroutines[g].joined)]
    /\ mutex' = "free"
    /\ goroutines' = [goroutines EXCEPT ![g] = Idle]
    /\ UNCHANGED <<dagVars, streamVars, loopVars, consumed, recArg>>

\* resetContextLog under the mutex
ResetClear(g) ==
    /\ goroutines[g].pc = "reset"
    /\ contextEntries' = NilEntries(contextEntries)
    /\ mutex' = "free"
    /\ goroutines' = [goroutines EXCEPT ![g] = Idle]
    /\ UNCHANGED logHistory
    /\ UNCHANGED <<dagVars, streamVars, loopVars, consumed, recArg>>

\* Agent.ProcessRequestStream up to the loop of executeWithDAGStream, called
\* when no turn is under way: resetContextLog, then the analysis of the
\* intention, whose error is returned, then the message list of the loop.
ProcessRequestStream(req, history, analysisOk) ==
    /\ lpc \in {"off", "done"}
    /\ turnNo < MaxTurns
    /\ turnNo' = turnNo + 1
    /\ contextEntries' = NilEntries(contextEntries)
    /\ request' = req
    /\ conversationHistory' = history
    /\ onChunkErr' = "never"
    /\ cancelled' = FALSE
    /\ iter' = 0
    /\ choice' = NoMessage
    /\ toolIdx' = 0
    /\ emitted' = << >>
    /\ modelCalls' = 0
    /\ executed' = << >>
    /\ toolsMark' = 0
    /\ IF analysisOk
       THEN /\ lpc' = "model"
            /\ turn' = NoTurnResult
            /\ messages' = BuildMessages(history)
       ELSE /\ lpc' = "done"
            /\ turn' = TurnResult("", "intention")
            /\ messages' = << >>
    /\ UNCHANGED <<dagVars, streamVars, consumed, logVars>>

----------------------------------------------------------------------------
\* The streaming transport (Client.ChatStreamWithTools)

\* Largest number of newline-terminated lines in the body of a response
MaxLines == 3

\* An event line as the loop tells lines apart: "blank" is nothing but white
\* space, "other" does not begin with the event-data marker, "done" is the
\* marker and [DONE], "broken" is the marker and a text that does not unmarshal
\* into a StreamResponse, "nochoices" is the marker and an object without
\* choices, "delta" is the marker and an object whose first choice has the
\* delta content `content`. A text is the sequence of its characters.
Line(kind, content) == [kind |-> kind, content |-> content]

\* the delta contents of the model
Fragments == {<< >>, <<"a", "b">>, <<"c", "d">>}

\* the lines of the model
Lines ==
    {Line(k, << >>) : k \in {"blank", "other", "done", "broken", "nochoices"}}
    \cup {Line("delta", c) : c \in Fragments}

\* no line
NoLine == Line("none", << >>)

\* a response: whether client.Do returned it, its status code, the lines of
\* its body that end in a newline, what comes after the last newline, and
\* whether the body ends in EOF or in an error of the connection
Wire(do, code, lines, tail, ending) ==
    [do |-> do, status |-> code, lines |-> lines, tail |-> tail,
     ending |-> ending]

\* wire while ChatStreamWithTools has not been called
NoWire == Wire("none", 0, << >>, NoLine, "eof")

\* http.StatusOK
StatusOK == 200

\* a status that is not StatusOK
StatusError == 500

\* what ChatStreamWithTools returns: the text, the error, and the response
\* body its error message carries
StreamResult(text, err, body) == [text |-> text, err |-> err, body |-> body]

\* the body an error message carries when it carries none
NoBody == [lines |-> << >>, tail |-> NoLine]

\* sresult while ChatStreamWithTools has not returned
NoStreamResult == StreamResult(<< >>, "none", NoBody)

\* Mutant: the error is noted and the loop reads on.
ReturnStreamReadsOn(text, err, body) ==
    /\ sresult' = StreamResult(text, err, body)
    /\ UNCHANGED spc

\* Mutant: whatever it returns, the transport returns the text accumulated.
ReturnStreamWithText(text, err, body) ==
    /\ spc' = "returned"
    /\ sresult' = StreamResult(fullContent, err, body)

\* ChatStreamWithTools returns
ReturnStream(text, err, body) ==
    /\ spc' = "returned"
    /\ sresult' = StreamResult(text, err, body)

\* Mutant: the status code is not looked at.
StatusFailedNever(code) == FALSE

\* resp.StatusCode != http.StatusOK
StatusFailed(code) == code # StatusOK

\* The request: an error of client.Do is returned; a status that is not 200 is
\* returned as an error with the body that io.ReadAll gives; otherwise the
\* body is read line by line.
StreamRequest ==
    /\ spc = "start"
    /\ IF wire.do = "err"
       THEN ReturnStream(<< >>, "send", NoBody)
       ELSE IF StatusFailed(wire.status)
       THEN ReturnStream(<< >>, "status",
                         [lines |-> wire.lines, tail |-> wire.tail])
       ELSE spc' = "reading" /\ UNCHANGED sresult
    /\ UNCHANGED <<wire, hasOnChunk, spos, fullContent, delivered>>
    /\ UNCHANGED <<dagVars, turnVars>>

\* Mutant: the termination token is a line like any other.
IsDoneNever(line) == FALSE

\* data == "[DONE]"
IsDone(line) == line.kind = "done"

\* Mutant: data that does not unmarshal ends the stream with an error.
BrokenIsFatal(line) ==
    /\ ReturnStream(<< >>, "parse", NoBody)
    /\ UNCHANGED <<fullContent, delivered>>

\* the continue after json.Unmarshal returned an error for the data of line
ContinueOnBroken(line) ==
    UNCHANGED <<spc, sresult, fullContent, delivered>>

\* Mutant: fragments are put in front of the text.
WriteStringInFront(text, content) == content \o text

\* fullContent.WriteString(content)
WriteString(text, content) == text \o content

\* Mutant: an error of onChunk is dropped.
OnChunkFailedNever(ok) == FALSE

\* err := onChunk(content); err != nil
OnChunkFailed(ok) == ~ok

\* Mutant: what came after the last newline is processed like a line.
BreakAfterTail(tail) ==
    LET carries == tail.kind = "delta" /\ tail.content # << >>
        text == IF carries THEN WriteString(fullContent, tail.content)
                ELSE fullContent
    IN  /\ fullContent' = text
        /\ delivered' = IF carries /\ hasOnChunk
                         THEN Append(delivered, tail.content)
                         ELSE delivered
        /\ ReturnStream(text, "nil", NoBody)

\* if err == io.EOF { break }: what reader.ReadBytes returned with io.EOF, the
\* text after the last newline, is dropped, and the text is returned
BreakAtEOF(tail) ==
    /\ UNCHANGED <<fullContent, delivered>>
    /\ ReturnStream(fullContent, "nil", NoBody)

\* One pass of the read loop. At the end of the body reader.ReadBytes returns
\* what came after the last newline together with io.EOF, on which the loop
\* breaks before it looks at the line, and the text is returned; or it returns
\* the error of the connection, which is returned.
\* Otherwise the next line is read: blank lines and lines without the marker
\* are passed over, the termination token ends the loop with the text, data
\* that does not unmarshal is passed over, and the content of the first
\* choice, when it is not empty, is written to fullContent and handed to
\* onChunk, whose error is returned.
StreamReadLine ==
    /\ spc = "reading"
    /\ IF spos = Len(wire.lines)
       THEN /\ IF wire.ending = "eof"
               THEN BreakAtEOF(wire.tail)
               ELSE /\ ReturnStream(<< >>, "read", NoBody)
                    /\ UNCHANGED <<fullContent, delivered>>
            /\ UNCHANGED spos
       ELSE LET line == wire.lines[spos + 1] IN
            /\ spos' = spos + 1
            /\ IF line.kind \in {"blank", "other"}
               THEN UNCHANGED <<spc, sresult, fullContent, delivered>>
               ELSE IF IsDone(line)
               THEN /\ ReturnStream(fullContent, "nil", NoBody)
                    /\ UNCHANGED <<fullContent, delivered>>
               ELSE IF line.kind = "broken"
               THEN ContinueOnBroken(line)
               ELSE IF line.kind = "delta" /\ line.content # << >>
               THEN /\ fullContent' = WriteString(fullContent, line.content)
                    /\ IF hasOnChunk
                       THEN /\ delivered' = Append(delivered, line.content)
                            /\ \E ok \in BOOLEAN :
                                IF OnChunkFailed(ok)
                                THEN ReturnStream(<< >>, "onChunk", NoBody)
                                ELSE UNCHANGED <<spc, sresult>>
                       ELSE UNCHANGED <<spc, sresult, delivered>>
               ELSE UNCHANGED <<spc, sresult, fullContent, delivered>>
    /\ UNCHANGED <<wire, hasOnChunk>>
    /\ UNCHANGED <<dagVars, turnVars>>

----------------------------------------------------------------------------
\* The graphs and settings the specifications start from

\* The tool calls a backend may ask for, without their ids: function calls of
\* every name and payload, and calls of another type, of which nothing but the
\* type is looked at, with two of the names and payloads.
ToolCallKinds ==
    {k \in [Type : {"function", "custom"}, Name : Registered \cup {Unregistered},
            Arguments : Arguments] :
        k.Type = "custom" =>
            <<k.Name, k.Arguments>> \in {<<"execute_command", ArgsObject>>,
                                         <<Unregistered, ArgsBroken>>}}

\* the lists of tool calls a backend may ask for in one response
Requests == UNION {[1..k -> ToolCallKinds] : k \in 1..MaxToolCalls}

\* the lists of one tool call
ShortRequests == [1..1 -> ToolCallKinds]

\* the message list when the loop of the turn begins
InitialMessages == BuildMessages(conversationHistory)

\* what is the same whenever the loop begins
InitLoop ==
    /\ iter = 0
    /\ messages = InitialMessages
    /\ choice = NoMessage
    /\ toolIdx = 0
    /\ emitted = << >>
    /\ contextEntries = << >>
    /\ turn = NoTurnResult
    /\ modelCalls = 0
    /\ executed = << >>
    /\ toolsMark = 0
    /\ cancelled = FALSE
    /\ consumed = << >>

\* no turn is under way
InitIdle ==
    /\ request = << >>
    /\ lpc = "off"
    /\ conversationHistory = << >>
    /\ onChunkErr = "never"
    /\ turnNo = 0
    /\ InitLoop

\* no turn is under way and no other caller uses the context log
InitNoTurn == InitIdle /\ InitNoLog

\* ChatStreamWithTools has not been called
InitNoStream ==
    /\ wire = NoWire
    /\ hasOnChunk = FALSE
    /\ spc = "off"
    /\ spos = 0
    /\ fullContent = << >>
    /\ delivered = << >>
    /\ sresult = NoStreamResult

\* A turn at the beginning of its loop, with a backend that answers, fails, or
\* asks for some list of tool calls.
InitTurn ==
    /\ \/ /\ request \in Requests
          /\ conversationHistory = << >>
          /\ onChunkErr = "never"
       \/ /\ request \in ShortRequests
          /\ conversationHistory \in Histories
          /\ onChunkErr \in OnChunkErrs
    /\ lpc = "model"
    /\ turnNo = 1
    /\ InitLoop
    /\ InitNoLog


\* dependency lists: the ascending enumerations of the subsets of S
AscLists(S) == {Asc(T) : T \in SUBSET S}

\* dependency lists: every enumeration of every subset of S
AllLists(S) == UNION {Perms(T) : T \in SUBSET S}

\* graphs on 1..N in which every node depends on nodes of smaller id only
\* (every acyclic graph is one of these up to the naming of its nodes)
ForwardGraphs(N, Lists) ==
    {d \in [1..N -> Lists] : \A n \in 1..N : Range(d[n]) \subseteq 1..(n - 1)}

\* the output map of an "ok" handler when the data is not looked at
DefaultOut == [k \in {"x"} |-> 5]

\* the output maps the handlers of the data specification return
OutMaps == {EmptyMap, [k \in {"x"} |-> 5], [k \in {"x", "y"} |-> 6]}

\* the input maps a node is given before the run
InMaps == {EmptyMap, [k \in {"x", "z"} |-> 1]}

\* what is the same in every initial state: Execute has not been called
InitRun ==
    /\ pc = "idle"
    /\ result = NoResult
    /\ ctxDone = FALSE
    /\ totalNodes = 0
    /\ completed = 0
    /\ errChan = << >>
    /\ semaphore = 0
    /\ gstate = [n \in nodes |-> "none"]
    /\ inputCopy = [n \in nodes |-> EmptyMap]
    /\ calls = [n \in nodes |-> 0]
    /\ xstate = [n \in nodes |-> "idle"]
    /\ atExpiry = NotExpired
    /\ nodeError = [n \in nodes |-> "nil"]
    /\ addArg = NoNode

\* nodes as NewNode makes them: pending, with empty input and output
InitFresh ==
    /\ status = [n \in nodes |-> NodeStatusPending]
    /\ input = [n \in nodes |-> EmptyMap]
    /\ output = [n \in nodes |-> EmptyMap]

\* Acyclic graphs of fresh nodes whose handlers succeed or fail (or that all
\* have no handler), under every parallelism below the number of nodes.
InitPending ==
    /\ \E N \in 0..MaxNodes :
        /\ nodes = 1..N
        /\ deps \in ForwardGraphs(N, AscLists(1..N))
    /\ \/ handler \in [nodes -> {Handler("ok", DefaultOut), Handler("fail", EmptyMap)}]
       \/ handler = [n \in nodes |-> Handler("nil", EmptyMap)]
    /\ parallelNum \in 0..(MaxNodes - 1)
    /\ InitFresh
    /\ InitRun
    /\ InitNoTurn
    /\ InitNoStream

\* Acyclic graphs one of whose nodes is in any status when Execute is called
\* (Status is an exported field, and an earlier Execute leaves nodes completed
\* or failed).
InitPreset ==
    /\ \E N \in 1..MaxNodes :
        /\ nodes = 1..N
        /\ deps \in ForwardGraphs(N, AscLists(1..N))
        /\ \E m \in 1..N, st \in NodeStatus :
            status = [n \in nodes |-> IF n = m THEN st ELSE NodeStatusPending]
    /\ handler = [n \in nodes |-> Handler("ok", DefaultOut)]
    /\ parallelNum = 1
    /\ input = [n \in nodes |-> EmptyMap]
    /\ output = [n \in nodes |-> EmptyMap]
    /\ InitRun
    /\ InitNoTurn
    /\ InitNoStream

\* dependency lists: the ascending enumerations of the subsets of S that have
\* fewer elements than a graph has nodes at most
ShortLists(S) == {Asc(T) : T \in {U \in SUBSET S : Cardinality(U) < MaxNodes}}

\* Graphs with any such dependency lists over the ids 0..MaxNodes: with absent
\* dependencies, self-dependencies and cycles.
InitAnyGraph ==
    /\ \E N \in 0..MaxNodes :
        /\ nodes = 1..N
        /\ deps \in [nodes -> ShortLists(0..MaxNodes)]
    /\ handler = [n \in nodes |-> Handler("ok", DefaultOut)]
    /\ parallelNum = 1
    /\ InitFresh
    /\ InitRun
    /\ InitNoTurn
    /\ InitNoStream

\* Graphs with one dependency more than an acyclic graph has: on an absent id,
\* on the node itself or on a node of larger id.
InitBackEdge ==
    /\ \E N \in 1..MaxNodes :
        /\ nodes = 1..N
        /\ \E d \in ForwardGraphs(N, AscLists(1..N)), n \in 1..N :
            \E m \in {0} \cup (n..N) : deps = [d EXCEPT ![n] = Append(@, m)]
    /\ handler = [n \in nodes |-> Handler("ok", DefaultOut)]
    /\ parallelNum = 1
    /\ InitFresh
    /\ InitRun
    /\ InitNoTurn
    /\ InitNoStream

\* Acyclic graphs of fresh nodes with input and whose handlers return data; the
\* dependencies are listed in any order.
InitData ==
    /\ \E N \in 1..MaxNodes :
        /\ nodes = 1..N
        /\ deps \in ForwardGraphs(N, AllLists(1..N))
        /\ input \in {[n \in nodes |-> IF n = N THEN m ELSE EmptyMap] : m \in InMaps}
    /\ handler \in [nodes -> {Handler("ok", m) : m \in OutMaps}]
    /\ parallelNum = 1
    /\ status = [n \in nodes |-> NodeStatusPending]
    /\ output = [n \in nodes |-> EmptyMap]
    /\ InitRun
    /\ InitNoTurn
    /\ InitNoStream

\* Smaller graphs, the empty one included, at most one of whose nodes is in
\* any status, for callers that call Execute again and that execute nodes
\* themselves.
InitNode ==
    /\ \E N \in 0..(MaxNodes - 1) :
        /\ nodes = 1..N
        /\ deps \in ForwardGraphs(N, AscLists(1..N))
        /\ \E m \in 0..N, st \in NodeStatus :
            status = [n \in nodes |-> IF n = m THEN st ELSE NodeStatusPending]
    /\ handler \in [nodes -> {Handler("ok", DefaultOut), Handler("fail", EmptyMap)}]
    /\ parallelNum \in 1..(MaxNodes - 1)
    /\ input = [n \in nodes |-> EmptyMap]
    /\ output = [n \in nodes |-> EmptyMap]
    /\ InitRun
    /\ InitNoTurn
    /\ InitNoStream

\* the nodes AddNode is handed: fresh from NewNode, with at most one dependency
NodeArgs ==
    [ID : 1..MaxNodes,
     Dependencies : {<< >>} \cup {<<d>> : d \in 1..MaxNodes},
     Handler : {Handler("ok", DefaultOut)}]

\* the graph as NewDAG makes it: without nodes
InitEmptyGraph ==
    /\ nodes = {}
    /\ deps = << >>
    /\ handler = << >>
    /\ parallelNum = 1
    /\ InitFresh
    /\ InitRun

\* a graph under construction
InitBuild == InitEmptyGraph /\ InitNoTurn /\ InitNoStream

\* a turn of the agent, which has no graph
InitAgent == InitEmptyGraph /\ InitTurn /\ InitNoStream

\* the texts SimpleQuery returns to the think and summary handlers
Responses == {<<"text">>, QueryError}

\* the texts SimpleQuery returns to the decision handler: plans that are an
\* array of calls, alone or inside other text, and plans that are not
Plans ==
    {<<"[", "]">>, <<"[", "call", "]">>, <<"text", "[", "call", "call", "]", "text">>,
     <<"text">>, <<"{", "}">>, <<"text", "]", "[">>, QueryError}

\* the graph executeWithDAG builds and the input it gives the think node; the
\* parallelism is the configuration's
InitPipeline ==
    /\ nodes = DOMAIN PipelineKinds
    /\ deps = [n \in nodes |-> IF n = 1 THEN << >> ELSE <<n - 1>>]
    /\ \E think \in Responses, plan \in Plans, summary \in Responses :
        handler = [n \in nodes |->
                      Handler(PipelineKinds[n],
                              CASE PipelineKinds[n] = "think" -> think
                                [] PipelineKinds[n] = "decision" -> plan
                                [] PipelineKinds[n] = "summary" -> summary
                                [] OTHER -> << >>)]
    /\ parallelNum \in 1..2
    /\ status = [n \in nodes |-> NodeStatusPending]
    /\ input = [n \in nodes |->
                    IF PipelineKinds[n] = "think"
                    THEN Map2("user_input", <<"request">>,
                              "intention", <<"intention">>)
                    ELSE EmptyMap]
    /\ output = [n \in nodes |-> EmptyMap]
    /\ InitRun
    /\ InitNoTurn
    /\ InitNoStream

Init == InitPending \/ InitPreset \/ InitBackEdge

\* one Execute call on a graph
Next ==
    \/ ExecuteCall
    \/ LoopTop
    \/ Wake
    \/ \E n \in nodes : GoStart(n)
    \/ \E n \in nodes : GoFinish(n)
    \/ AfterWait
    \/ CtxExpire

Spec == Init /\ [][Next]_vars

\* the steps of Execute other than the expiry of its context
Progress ==
    \/ ExecuteCall
    \/ LoopTop
    \/ Wake
    \/ \E n \in nodes : GoStart(n)
    \/ \E n \in nodes : GoFinish(n)
    \/ AfterWait

\* Execute under a scheduler that lets the caller and every goroutine run, and
\* with handlers that return.
FairSpec == Init /\ [][Next]_vars /\ WF_vars(Progress)

\* one Execute call with data flowing along the dependencies
NextData ==
    \/ ExecuteCall
    \/ LoopTop
    \/ \E n \in nodes : GoStart(n)
    \/ \E n \in nodes : GoFinish(n)
    \/ AfterWait

SpecData == InitData /\ [][NextData]_vars

\* any number of Execute calls on the graph, and Execute calls on its nodes
NextNode ==
    \/ ExecuteCall
    \/ LoopTop
    \/ Wake
    \/ \E n \in nodes : GoStart(n)
    \/ \E n \in nodes : GoFinish(n)
    \/ AfterWait
    \/ CtxExpire
    \/ ExecuteAgain
    \/ \E n \in nodes : NodeExecuteDirect(n)
    \/ \E n \in nodes : NodeExecuteDirectReturn(n)

SpecNode == InitNode /\ [][NextNode]_vars

\* any number of Execute calls on the graph, one after the other
NextAgain ==
    \/ ExecuteCall
    \/ LoopTop
    \/ Wake
    \/ \E n \in nodes : GoStart(n)
    \/ \E n \in nodes : GoFinish(n)
    \/ AfterWait
    \/ CtxExpire
    \/ ExecuteAgain

\* Execute calls under a scheduler that lets Execute and its goroutines run,
\* with handlers that return and with a context whose deadline passes
FairSpecAgain ==
    InitNode /\ [][NextAgain]_vars /\ WF_vars(Progress) /\ WF_vars(CtxExpire)

\* executeWithDAG: Execute on the graph of the four handlers
NextPipeline ==
    \/ ExecuteCall
    \/ LoopTop
    \/ \E n \in nodes : GoStart(n)
    \/ \E n \in nodes : GoFinish(n)
    \/ \E n \in nodes : HandlerPanic(n)
    \/ AfterWait
    \/ CtxExpire

SpecPipeline == InitPipeline /\ [][NextPipeline]_vars

\* Validate on its own, on any graph
NextValidate == ValidateCall

SpecValidate == InitAnyGraph /\ [][NextValidate]_vars

\* the construction of a graph
NextBuild == \E node \in NodeArgs : AddNode(node)

SpecBuild == InitBuild /\ [][NextBuild]_vars

\* one turn of the tool-calling loop
NextTurn ==
    \/ ChatCall
    \/ ToolCallStart
    \/ ToolCallReturn
    \/ EndIteration

SpecTurn == InitAgent /\ [][NextTurn]_vars

\* a turn whose model calls and capabilities return
FairSpecTurn == InitAgent /\ [][NextTurn]_vars /\ WF_vars(NextTurn)

\* the bodies of a response: up to MaxLines lines that end in a newline
Bodies == UNION {[1..k -> Lines] : k \in 0..MaxLines}

\* what comes after the last newline of a body: nothing, a delta, a broken text
Tails == {NoLine, Line("delta", <<"a", "b">>), Line("broken", << >>)}

\* ChatStreamWithTools is called, with a callback or with nil, and the backend
\* gives a response with status 200 and any body, a response with another
\* status and any body, or none.
InitStream ==
    /\ spc = "start"
    /\ spos = 0
    /\ fullContent = << >>
    /\ delivered = << >>
    /\ sresult = NoStreamResult
    /\ \/ /\ \E lines \in Bodies, tail \in Tails, ending \in {"eof", "error"} :
                wire = Wire("ok", StatusOK, lines, tail, ending)
          /\ hasOnChunk \in BOOLEAN
       \/ /\ \E lines \in Bodies :
                wire = Wire("ok", StatusError, lines, NoLine, "eof")
          /\ hasOnChunk = TRUE
       \/ /\ wire = Wire("err", 0, << >>, NoLine, "eof")
          /\ hasOnChunk = TRUE

\* an agent whose transport is called
InitTransport == InitEmptyGraph /\ InitNoTurn /\ InitStream

\* the streaming transport
NextStream ==
    \/ StreamRequest
    \/ StreamReadLine

SpecStream == InitTransport /\ [][NextStream]_vars

\* one turn whose ctx may become done at any moment
NextCancel ==
    \/ NextTurn
    \/ CancelTurn

SpecCancel == InitAgent /\ [][NextCancel]_vars

\* the tool calls the backend asks for in the turns of a session
SessionRequests == {r \in ShortRequests : r[1].Type = "function"}

\* an agent over several turns, whose context log is drained at any moment
NextSession ==
    \/ \E req \in SessionRequests, history \in Histories, analysisOk \in BOOLEAN :
            ProcessRequestStream(req, history, analysisOk)
    \/ NextTurn
    \/ ConsumeContextLog

SpecSession == InitBuild /\ [][NextSession]_vars

\* the values json.Unmarshal makes of the command of a call
Commands ==
    {Null, Str(<< >>), Str(<<" ">>), Str(<<"ls">>), Str(<<" ", "ls", " ">>),
     Num(<<"7">>)}

\* the values json.Unmarshal makes of the args of a call
Args ==
    {Null, Str(<<"-l">>), Str(<<" ">>), Num(<<"7">>), Arr(<< >>),
     Arr(<<Str(<<"-l">>), Str(<<"a.txt">>)>>),
     Arr(<<Str(<<"-l">>), Str(<< >>), Num(<<"7">>)>>)}

\* the argument map with this command and these args; a key whose value is
\* null is left out
Params(command, args) ==
    [k \in {key \in {"command", "args"} :
               (IF key = "command" THEN command ELSE args) # Null} |->
        IF k = "command" THEN command ELSE args]

\* what ExecuteCommandTool.Execute can return for an argument map: the error
\* of the missing command; or, when the command ran, the timeout error, the
\* result of a command that failed or the result of one that succeeded
ExecuteCommandOutcomes(params) ==
    IF ParamMissing("execute_command", params)
    THEN {ToolError(<<"missing command">>)}
    ELSE {ToolError(<<"timeout">>), ToolResult(FALSE, <<"exit status 1">>),
          ExecSucceeded}

\* recordToolCallContext is called after a capability returned
InitRecord ==
    /\ \E command \in Commands, args \in Args :
         \/ \E res \in ExecuteCommandOutcomes(Params(command, args)) :
              recArg = RecArg("execute_command", Params(command, args), res,
                              "called")
         \/ recArg = RecArg("read_file", Params(command, args), ExecSucceeded,
                            "called")
    /\ InitNoGoroutines

\* an agent whose recordToolCallContext is called
InitRecorder == InitEmptyGraph /\ InitIdle /\ InitRecord /\ InitNoStream

\* recordToolCallContext on its own, on any call
NextRecord == RecordCall

SpecRecord == InitRecorder /\ [][NextRecord]_vars

\* goroutines that call the methods of the context log
NextLog ==
    \/ \E g \in Goroutines, name \in EntryNames : AppendCall(g, name)
    \/ \E g \in Goroutines : ConsumeCall(g)
    \/ \E g \in Goroutines : ResetCall(g)
    \/ \E g \in Goroutines : Lock(g)
    \/ \E g \in Goroutines : AppendEntry(g)
    \/ \E g \in Goroutines : ConsumeJoin(g)
    \/ \E g \in Goroutines : ConsumeClear(g)
    \/ \E g \in Goroutines : ResetClear(g)

SpecLog == InitBuild /\ [][NextLog]_vars

----------------------------------------------------------------------------
\* Properties

\* every declared dependency of n, as a set
DepSet(n) == Range(deps[n])

\* the handler of n was started by a goroutine of Execute and has not returned
HandlerRunning(n) == gstate[n] = "running"

\* every dependency of n is a node whose status is completed
AllDepsCompleted(n) ==
    \A d \in DepSet(n) : d \in nodes /\ status[d] = NodeStatusCompleted

\* C1: a node selected by Execute is pending, with every dependency completed,
\* from its selection until its handler starts; and while its handler runs
\* every one of its dependencies is completed (none is pending, running or
\* failed).
C1_RunsOnlyWhenReady ==
    \A n \in nodes :
        /\ gstate[n] = "spawned" =>
              status[n] = NodeStatusPending /\ AllDepsCompleted(n)
        /\ HandlerRunning(n) =>
              status[n] = NodeStatusRunning /\ AllDepsCompleted(n)

\* a handler runs for a node that has dependencies, while another node is
\* still pending
C1_Witness ==
    \E n \in nodes :
        /\ HandlerRunning(n)
        /\ calls[n] = 1
        /\ deps[n] # << >>
        /\ \E m \in nodes : status[m] = NodeStatusPending

\* C2: in every step, a node whose status changes goes from pending to running,
\* or from running to completed or failed; so nothing leaves completed or
\* failed (or skipped).
C2_StatusMonotonic ==
    [][\A n \in nodes :
          status'[n] # status[n] =>
              \/ status[n] = NodeStatusPending /\ status'[n] = NodeStatusRunning
              \/ /\ status[n] = NodeStatusRunning
                 /\ status'[n] \in {NodeStatusCompleted, NodeStatusFailed}]_vars

\* after one node completed and another failed, Execute is called on the graph
\* again and on a finished node directly
C2_Witness ==
    /\ \E n, m \in nodes :
        /\ status[n] = NodeStatusCompleted /\ calls[n] = 1
        /\ status[m] = NodeStatusFailed /\ calls[m] = 1
    /\ pc = "sleep"

\* C3: the number of handlers running at once is at most parallelNum.
C3_BoundedParallelism ==
    Cardinality({n \in nodes : HandlerRunning(n)}) <= parallelNum

\* two handlers run under parallelism 2 while a third eligible node waits
C3_Witness ==
    /\ parallelNum = 2
    /\ Cardinality({n \in nodes : HandlerRunning(n)}) = 2
    /\ \E n \in nodes : gstate[n] = "spawned"

\* the dependency relation restricted to the nodes of the graph
Succ(S) == UNION {DepSet(n) \cap nodes : n \in S}

RECURSIVE ReachIn(_, _)
ReachIn(S, k) == IF k = 0 THEN S ELSE ReachIn(S \cup Succ(S), k - 1)

\* the nodes n depends on, directly or not
Reachable(n) == ReachIn(Succ({n}), Cardinality(nodes))

HasCycle == \E n \in nodes : n \in Reachable(n)

AllDepsExist == \A n \in nodes : DepSet(n) \subseteq nodes

\* a graph Execute is promised to finish: acyclic, complete, of pending nodes,
\* with handlers that succeed, and with a parallelism of at least 1
GoodGraph ==
    /\ ~HasCycle
    /\ AllDepsExist
    /\ \A n \in nodes : status[n] = NodeStatusPending /\ handler[n].kind # "fail"
    /\ parallelNum >= 1

ExecuteSucceeded ==
    /\ pc = "done"
    /\ result = Success
    /\ \A n \in nodes : status[n] = NodeStatusCompleted
    /\ DOMAIN GetResults = nodes

\* C4: Execute called on a good graph eventually returns success with every
\* node completed, and GetResults then has one entry per node, unless the
\* context becomes done first.
C4_GoodGraphSucceeds ==
    (pc = "idle" /\ GoodGraph) ~> (ExecuteSucceeded \/ ctxDone)

\* a graph of MaxNodes nodes with dependencies has succeeded under parallelism 1
C4_Witness ==
    /\ ExecuteSucceeded
    /\ ~ctxDone
    /\ Cardinality(nodes) = MaxNodes
    /\ parallelNum = 1
    /\ \E n \in nodes : Len(deps[n]) = 2
    /\ \A n \in nodes : calls[n] = 1

\* C5: when Execute has returned success, every node is completed.
C5_SuccessMeansAllCompleted ==
    (pc = "done" /\ result = Success) =>
        \A n \in nodes : status[n] = NodeStatusCompleted

\* a handler launched by this Execute has failed
FailedInRun ==
    \E n \in nodes : gstate[n] = "finished" /\ status[n] = NodeStatusFailed

\* C6: once a handler of a batch has failed, (1) every step leaves the nodes
\* not yet selected unselected and in their status, (2) Execute eventually
\* returns, and (3) when it has returned, its result is the failure of a failed
\* node of the batch and every node it launched has finished, completed or
\* failed.
C6_FailFastPerBatch ==
    /\ [][FailedInRun =>
             \A m \in nodes :
                 gstate[m] = "none" =>
                     gstate'[m] = "none" /\ status'[m] = status[m]]_vars
    /\ FailedInRun ~> (pc = "done" /\ result.err = "nodeFailed")
    /\ [](FailedInRun /\ pc = "done" =>
             /\ result.err = "nodeFailed"
             /\ result.node \in nodes
             /\ status[result.node] = NodeStatusFailed
             /\ gstate[result.node] = "finished"
             /\ \A n \in Launched :
                    /\ gstate[n] = "finished"
                    /\ status[n] \in {NodeStatusCompleted, NodeStatusFailed})

\* Execute has returned the failure of one node of a batch whose other node
\* completed, and a third node, whose dependencies are all completed, is still
\* pending
C6_Witness ==
    /\ pc = "done"
    /\ result.err = "nodeFailed"
    /\ \E n \in Launched \ {result.node} : status[n] = NodeStatusCompleted
    /\ \E m \in nodes :
        /\ gstate[m] = "none"
        /\ status[m] = NodeStatusPending
        /\ deps[m] # << >>
        /\ AllDepsCompleted(m)

\* C7 as claimed: if the context became done before every node was completed,
\* Execute does not return success.
C7_ExpiryNeverSuccess ==
    (pc = "done" /\ ctxDone /\ atExpiry.incomplete) => result # Success

\* C7 as amended: if the context became done while some pending node had not
\* yet been selected into a batch, Execute does not return success.
C7_ExpiryBeforeLastLaunch ==
    (pc = "done" /\ ctxDone /\ atExpiry.unselected) => result # Success

\* the context became done after the first batch was launched and before the
\* second was selected; the first batch completed and Execute returned the
\* context's error
C7_Witness ==
    /\ pc = "done"
    /\ ctxDone
    /\ atExpiry.unselected
    /\ \E m \in nodes : status[m] = NodeStatusCompleted /\ calls[m] = 1
    /\ \E m \in nodes : status[m] = NodeStatusPending /\ AllDepsCompleted(m)
    /\ result = Err("ctx", 0)

\* the keys of the outputs of the dependencies of n
DepKeys(n) == UNION {DOMAIN output[d] : d \in DepSet(n) \cap nodes}

\* the last position in the dependency list of n whose output has key k
LastWith(n, k) ==
    CHOOSE i \in DOMAIN deps[n] :
        /\ k \in DOMAIN output[deps[n][i]]
        /\ \A j \in DOMAIN deps[n] :
               k \in DOMAIN output[deps[n][j]] => j <= i

\* what the handler of n is to see, given the input of n before the merge
ExpectedInput(n) ==
    [k \in (DOMAIN input[n]) \cup DepKeys(n) |->
        IF k \in DepKeys(n) THEN output[deps[n][LastWith(n, k)]][k]
        ELSE input[n][k]]

\* C8: in the step that invokes the handler of n, the input handed to it has
\* every key of the node's own input and of every dependency's output; a key
\* of some dependency's output has the value of the last dependency, in the
\* declared order, that has it, and any other key the node's own value.
C8_InputMergesDependencies ==
    [][\A n \in nodes :
          (gstate[n] = "spawned" /\ gstate'[n] = "running") =>
              inputCopy'[n] = ExpectedInput(n)]_vars

\* the handler of a node that depends on 2 and then on 1 runs: both produced x,
\* the node had x and z of its own, and it sees the x of node 1 (5) and its z
C8_Witness ==
    \E n \in nodes :
        /\ HandlerRunning(n)
        /\ deps[n] = <<2, 1>>
        /\ output[1] = [k \in {"x"} |-> 5]
        /\ output[2] = [k \in {"x", "y"} |-> 6]
        /\ inputCopy[n] = [k \in {"x", "y", "z"} |->
                              IF k = "x" THEN 5 ELSE IF k = "y" THEN 6 ELSE 1]

\* C9: when every declared dependency exists, Validate returns the cycle error
\* exactly when the dependency relation has a cycle, in whatever order it
\* visits the nodes.
C9_CycleDetectedIffCycle ==
    (pc = "done" /\ AllDepsExist) => (result = Err("cycle", 0) <=> HasCycle)

\* Validate has returned the cycle error for the two-node cycle
C9_Witness ==
    /\ pc = "done"
    /\ result = Err("cycle", 0)
    /\ nodes = {1, 2}
    /\ deps[1] = <<2>>
    /\ deps[2] = <<1>>

\* C10: Validate returns the missing-dependency error exactly when some
\* declared dependency is not a node of the graph, cycle or not.
C10_MissingReportedIffMissing ==
    pc = "done" => (result = Err("missing", 0) <=> ~AllDepsExist)

\* Validate has returned the missing-dependency error for a graph that also
\* has a cycle
C10_Witness ==
    /\ pc = "done"
    /\ result = Err("missing", 0)
    /\ HasCycle
    /\ ~AllDepsExist

\* a graph that fails validation
InvalidGraph == HasCycle \/ ~AllDepsExist

\* C11: on a graph that fails validation, Execute never gets past Validate: it
\* is either not yet called or has returned the validation error, no goroutine
\* was launched and no handler invoked, and no step changes the status, input,
\* output or error of any node.
C11_InvalidGraphNotExecuted ==
    /\ [](InvalidGraph =>
             /\ pc \in {"idle", "done"}
             /\ pc = "done" => result \in {Err("missing", 0), Err("cycle", 0)}
             /\ \A n \in nodes : calls[n] = 0 /\ gstate[n] = "none")
    /\ [][InvalidGraph => UNCHANGED <<status, input, output, nodeError>>]_vars

\* Execute has returned the cycle error for a graph of MaxNodes nodes whose
\* dependencies all exist, with every node still as NewNode made it
C11_Witness ==
    /\ pc = "done"
    /\ result = Err("cycle", 0)
    /\ HasCycle
    /\ AllDepsExist
    /\ Cardinality(nodes) = MaxNodes
    /\ \A n \in nodes : status[n] = NodeStatusPending /\ calls[n] = 0

\* the fields of the node stored under an id of the graph
Stored(n) == [ID |-> n, Dependencies |-> deps[n], Handler |-> handler[n]]

\* C12: in every AddNode step, with addArg' the node handed over: if its id is
\* already in the graph, the duplicate-node error is returned, the ids of the
\* graph are the same and every node stored, the one under that id included,
\* is the one stored before; otherwise nil is returned, the ids are those of
\* before and the new one, the new node is stored under its id as pending, and
\* every other node is the one stored before.
C12_AddNodeDuplicateOrFresh ==
    [][LET node == addArg' IN
       IF node.ID \in nodes
       THEN /\ result' = Err("duplicate", node.ID)
            /\ nodes' = nodes
            /\ UNCHANGED <<deps, handler, status, input, output, nodeError>>
       ELSE /\ result' = Success
            /\ nodes' = nodes \cup {node.ID}
            /\ deps'[node.ID] = node.Dependencies
            /\ handler'[node.ID] = node.Handler
            /\ status'[node.ID] = NodeStatusPending
            /\ \A n \in nodes :
                  /\ deps'[n] = deps[n]
                  /\ handler'[n] = handler[n]
                  /\ status'[n] = status[n]
                  /\ input'[n] = input[n]
                  /\ output'[n] = output[n]]_vars

\* AddNode has returned the duplicate error for a node that differs from the
\* one stored under its id, in a graph that has another node as well
C12_Witness ==
    /\ result = Err("duplicate", addArg.ID)
    /\ addArg.ID \in nodes
    /\ Stored(addArg.ID) # addArg
    /\ Cardinality(nodes) >= 2

\* the first response of the turn has come and has no tool call
FirstResponseIsAnswer ==
    /\ modelCalls >= 1
    /\ iter = 0
    /\ choice # NoMessage
    /\ Len(choice.ToolCalls) = 0

\* what C13 says of the turn apart from what is returned: it is over after one
\* model call, without any capability executed or message appended
EndedOnIterationOne ==
    /\ lpc = "done"
    /\ modelCalls = 1
    /\ executed = << >>
    /\ contextEntries = << >>
    /\ messages = InitialMessages

\* C13 as claimed: when the first response has no tool call, the turn is over
\* on iteration 1 and returns the content of that response without error.
C13_FirstAnswerReturned ==
    FirstResponseIsAnswer =>
        EndedOnIterationOne /\ turn = TurnResult(choice.Content, "nil")

\* C13 as amended: when the first response has no tool call, the turn is over
\* on iteration 1; it returns the content of that response without error,
\* unless the content is not empty and onChunk returned an error for it, which
\* is then returned with an empty answer.
C13_FirstAnswerReturnedOrOnChunkError ==
    FirstResponseIsAnswer =>
        /\ EndedOnIterationOne
        /\ \/ turn = TurnResult(choice.Content, "nil")
           \/ /\ turn = TurnResult("", "onChunk")
              /\ choice.Content # ""
              /\ emitted = <<Chunk("content", choice.Content)>>

\* the first response was an answer, onChunk took it and it was returned
C13_Witness ==
    /\ FirstResponseIsAnswer
    /\ turn = TurnResult("answer", "nil")
    /\ emitted = <<Chunk("content", "answer")>>
    /\ modelCalls = 1

\* the turn has ended in the final answer
FinalAnswer == lpc = "done" /\ turn.err = "nil"

\* the positions of emitted at which the content of a response was handed over
ContentChunks == {k \in DOMAIN emitted : emitted[k].kind = "content"}

\* C14 as claimed: when the turn has ended in the final answer, the content of
\* the last response is what was returned, and it was handed to onChunk exactly
\* once.
C14_FinalContentEmittedOnce ==
    FinalAnswer =>
        /\ turn.answer = choice.Content
        /\ Cardinality(ContentChunks) = 1
        /\ emitted[Len(emitted)] = Chunk("content", turn.answer)

\* C14 as amended: when the turn has ended in the final answer, the content of
\* the last response is what was returned; if it is not empty it was handed to
\* onChunk exactly once, as the last chunk, and if it is empty onChunk was not
\* called for it.
C14_NonEmptyFinalContentEmittedOnce ==
    FinalAnswer =>
        /\ turn.answer = choice.Content
        /\ IF turn.answer = ""
           THEN ContentChunks = {}
           ELSE /\ Cardinality(ContentChunks) = 1
                /\ emitted[Len(emitted)] = Chunk("content", turn.answer)

\* a turn that executed a capability has ended in a final answer that is not
\* empty
C14_Witness ==
    /\ FinalAnswer
    /\ turn.answer = "answer"
    /\ iter >= 1
    /\ executed # << >>
    /\ Len(emitted) > 1

\* the turn has ended with the error of the exhausted iteration budget
BudgetExhausted == lpc = "done" /\ turn.err = "maxIterations"

\* C15 as claimed: when the turn has ended with the budget error, there were
\* exactly 10 iterations and 10 model calls, no answer is returned, and nothing
\* was emitted after the last tool call of the 10th iteration was processed.
C15_BudgetEndsSilently ==
    BudgetExhausted =>
        /\ iter = maxIterations
        /\ modelCalls = maxIterations
        /\ turn.answer = ""
        /\ Len(emitted) = toolsMark

\* C15 as amended: the turn ends; once 10 iterations have processed tool calls
\* it has ended with the budget error; it ends with that error only then,
\* after exactly 10 model calls, without an answer, and with one chunk emitted
\* after the last tool call of the 10th iteration was processed: the newline
\* that closes the iteration; and a turn that has ended makes no model call and
\* emits nothing.
C15_BudgetEndsAfterNewline ==
    /\ <>(lpc = "done")
    /\ [](iter = maxIterations => BudgetExhausted)
    /\ [](modelCalls <= maxIterations)
    /\ [](BudgetExhausted =>
             /\ iter = maxIterations
             /\ modelCalls = maxIterations
             /\ turn.answer = ""
             /\ Len(emitted) = toolsMark + 1
             /\ emitted[Len(emitted)] = Chunk("newline", ""))
    /\ [][lpc = "done" => modelCalls' = modelCalls /\ emitted' = emitted]_vars

\* the budget is exhausted by a backend that asked for MaxToolCalls tool calls
\* in each of the 10 iterations, the last of which was executed
C15_Witness ==
    /\ BudgetExhausted
    /\ Len(request) = MaxToolCalls
    /\ Len(messages) = Len(InitialMessages) + maxIterations * (1 + MaxToolCalls)
    /\ executed # << >>
    /\ executed[Len(executed)] = <<maxIterations - 1, MaxToolCalls>>

\* the turn has ended with an error
TurnFailed == lpc = "done" /\ turn.err # "nil"

\* the errors of a model call that failed in transport: Client.Chat returned
\* an error, or a response without choices
TransportErrors == {"chatFailed", "emptyResponse"}

\* C16 as claimed: a turn that has ended with an error has ended with the
\* error of a failed model call or with that of the exhausted budget.
C16_OnlyTransportOrBudgetErrors ==
    TurnFailed => turn.err \in TransportErrors \cup {"maxIterations"}

\* C16 as amended: a step that ends the turn with an error is either a model
\* call, and the error is that of the call's transport or that of onChunk
\* refusing the final answer, or the end of the 10th iteration, and the error
\* is that of the exhausted budget; so no step that processes a tool call ends
\* the turn, whether the payload is malformed, the capability unknown or the
\* capability fails.
C16_OnlyTransportBudgetOrOnChunkErrors ==
    [][(lpc # "done" /\ lpc' = "done" /\ turn'.err # "nil") =>
          \/ /\ lpc = "model"
             /\ modelCalls' = modelCalls + 1
             /\ \/ turn'.err \in TransportErrors
                \/ /\ turn'.err = "onChunk"
                   /\ Len(choice'.ToolCalls) = 0
                   /\ choice'.Content # ""
          \/ /\ lpc = "tools"
             /\ toolIdx > Len(choice.ToolCalls)
             /\ iter' = maxIterations
             /\ turn'.err = "maxIterations"]_vars

\* the message list has a tool message with this content
Reported(content) ==
    \E k \in DOMAIN messages :
        messages[k].Role = "tool" /\ messages[k].Content = content

\* an unknown capability and a failed capability have been reported by tool
\* messages in two iterations, and the turn has then ended in a final answer
C16_Witness ==
    /\ lpc = "done"
    /\ turn = TurnResult("answer", "nil")
    /\ iter = 2
    /\ Reported("notFound")
    /\ Reported("execFailed")

\* the loop is about to call the model again, after an iteration that
\* processed the tool calls of choice
AwaitingNextModelCall == lpc = "model" /\ iter >= 1

\* the positions of the tool messages keyed to a tool-call id
ToolMessagesFor(id) ==
    {k \in DOMAIN messages :
        messages[k].Role = "tool" /\ messages[k].ToolCallID = id}

\* the capability of the tool call with this id was executed
WasExecuted(id) == \E k \in DOMAIN executed : executed[k] = id

\* C17: before the next model call, every tool call of the last response that
\* names a capability the registry does not have was not executed and has a
\* tool message keyed to its id that reports the absence.
C17_AbsentCapabilityReported ==
    AwaitingNextModelCall =>
        \A p \in DOMAIN choice.ToolCalls :
            LET toolCall == choice.ToolCalls[p] IN
            toolCall.Name \notin Registered =>
                /\ ~WasExecuted(toolCall.ID)
                /\ \E k \in ToolMessagesFor(toolCall.ID) :
                       messages[k].Content = "notFound"

\* C18: before the next model call, every tool call of the last response whose
\* payload is not a JSON object was not executed and has a tool message keyed
\* to its id that reports the parse error.
C18_MalformedPayloadReported ==
    AwaitingNextModelCall =>
        \A p \in DOMAIN choice.ToolCalls :
            LET toolCall == choice.ToolCalls[p] IN
            toolCall.Arguments # ArgsObject =>
                /\ ~WasExecuted(toolCall.ID)
                /\ \E k \in ToolMessagesFor(toolCall.ID) :
                       messages[k].Content = "parseError"

\* a tool call is listed before another: in an earlier response, or earlier
\* in the same response
ListedBefore(a, b) == a[1] < b[1] \/ (a[1] = b[1] /\ a[2] < b[2])

\* the positions of the tool messages
ToolMessages == {k \in DOMAIN messages : messages[k].Role = "tool"}

\* the position of the last assistant message before position k, 0 if none
LastAssistantBefore(k) ==
    LET before == {a \in 1..(k - 1) : messages[a].Role = "assistant"} IN
    IF before = {} THEN 0 ELSE CHOOSE a \in before : \A b \in before : b <= a

\* C19: the capabilities are executed in the order the tool calls are listed;
\* while one executes, every one executed before has returned and been
\* answered; the tool messages are in the order the tool calls are listed,
\* each after the assistant message that lists its tool call and before the
\* next assistant message; and when the model is called again every executed
\* tool call has been answered.
C19_SequentialInListedOrder ==
    /\ \A j, k \in DOMAIN executed :
          j < k => ListedBefore(executed[j], executed[k])
    /\ \A j, k \in ToolMessages :
          j < k => ListedBefore(messages[j].ToolCallID, messages[k].ToolCallID)
    /\ \A k \in ToolMessages :
          /\ LastAssistantBefore(k) # 0
          /\ \E p \in DOMAIN messages[LastAssistantBefore(k)].ToolCalls :
                messages[LastAssistantBefore(k)].ToolCalls[p].ID
                    = messages[k].ToolCallID
    /\ lpc = "exec" =>
          /\ executed[Len(executed)] = choice.ToolCalls[toolIdx].ID
          /\ ToolMessagesFor(executed[Len(executed)]) = {}
          /\ \A j \in 1..(Len(executed) - 1) :
                ToolMessagesFor(executed[j]) # {}
    /\ lpc = "model" =>
          \A j \in DOMAIN executed :
              Cardinality(ToolMessagesFor(executed[j])) = 1

\* the second capability of a response executes after the first has returned
\* and been answered, in the second iteration
C19_Witness ==
    /\ lpc = "exec"
    /\ iter = 1
    /\ toolIdx = 2
    /\ Len(executed) = 4
    /\ ToolMessagesFor(<<1, 1>>) # {}
    /\ messages[Len(messages)].ToolCallID = <<1, 1>>

\* C20: before each model call after the first, every tool call of the last
\* assistant message has exactly one tool message keyed to its id.
C20_EveryToolCallAnswered ==
    AwaitingNextModelCall =>
        \A p \in DOMAIN choice.ToolCalls :
            Cardinality(ToolMessagesFor(choice.ToolCalls[p].ID)) = 1


----------------------------------------------------------------------------
\* The context log and the streaming transport

\* C21: whenever a capability that was executed returns, with a result or with
\* an error, the context log gets an entry if and only if the capability is
\* execute_command, whatever argument map it was called with.
C21_EntryIffShellExecution ==
    [][lpc = "exec" =>
          ((Len(contextEntries') = Len(contextEntries) + 1)
             <=> choice.ToolCalls[toolIdx].Name = "execute_command")]_vars

\* the position of the first termination token of the body, 0 when it has none
FirstDone ==
    IF \E i \in DOMAIN wire.lines : wire.lines[i].kind = "done"
    THEN CHOOSE i \in DOMAIN wire.lines :
            /\ wire.lines[i].kind = "done"
            /\ \A j \in 1..(i - 1) : wire.lines[j].kind # "done"
    ELSE 0

\* the first n lines of the body, up to the first termination token
LinesBeforeDone(n) ==
    SubSeq(wire.lines, 1,
           IF FirstDone # 0 /\ FirstDone - 1 < n THEN FirstDone - 1 ELSE n)

\* whether a line carries a content fragment that is not empty
CarriesFragment(line) == line.kind = "delta" /\ line.content # << >>

\* the fragments of a list of lines that are not empty, in the order of the lines
FragmentsOf(ls) ==
    LET carrying == SelectSeq(ls, CarriesFragment)
    IN  [i \in DOMAIN carrying |-> carrying[i].content]

\* the concatenation of a list of texts
RECURSIVE Concatenation(_)
Concatenation(texts) ==
    IF texts = << >> THEN << >>
    ELSE Head(texts) \o Concatenation(Tail(texts))

\* ChatStreamWithTools returned without error
StreamSucceeded == spc = "returned" /\ sresult.err = "nil"

\* C22: at every moment the callback has been invoked once for each fragment
\* that is not empty of the lines read so far, in the order of the lines; and
\* a successful return gives the concatenation, in that order, of the
\* fragments of the lines read.
C22_CallbackPerFragmentInOrder ==
    /\ (spc # "start" /\ hasOnChunk) =>
            delivered = FragmentsOf(LinesBeforeDone(spos))
    /\ StreamSucceeded =>
            /\ sresult.text = Concatenation(FragmentsOf(LinesBeforeDone(spos)))
            /\ spos = Len(wire.lines) \/ spos = FirstDone

\* the deltas ab and cd and the termination token gave two callbacks and abcd
C22_Witness ==
    /\ StreamSucceeded
    /\ wire.lines = <<Line("delta", <<"a", "b">>), Line("delta", <<"c", "d">>),
                      Line("done", << >>)>>
    /\ delivered = <<(<<"a", "b">>), (<<"c", "d">>)>>
    /\ sresult.text = <<"a", "b", "c", "d">>

\* the line the next pass of the read loop reads
NextLine ==
    IF spc = "reading" /\ spos < Len(wire.lines)
    THEN wire.lines[spos + 1]
    ELSE NoLine

\* C23: the pass of the read loop over a data line that does not parse changes
\* nothing but the position in the body: the transport goes on reading, and
\* the text accumulated, the callbacks made and the result are what they are
\* without the line, wherever in the body the line is.
C23_BrokenLineSkipped ==
    [][NextLine.kind = "broken" =>
          /\ spc' = "reading"
          /\ spos' = spos + 1
          /\ UNCHANGED <<fullContent, delivered, sresult>>]_vars

\* a body with a broken line between two deltas gave the result and the
\* callbacks of the two deltas
C23_Witness ==
    /\ StreamSucceeded
    /\ wire.lines = <<Line("delta", <<"a", "b">>), Line("broken", << >>),
                      Line("delta", <<"c", "d">>)>>
    /\ delivered = <<(<<"a", "b">>), (<<"c", "d">>)>>
    /\ sresult.text = <<"a", "b", "c", "d">>

\* C24: once the callback has returned an error, the transport has returned
\* that error and no text, the line read last is the one whose fragment the
\* callback failed on, and the callback has been invoked for no fragment of a
\* later line.
C24_CallbackErrorStopsReading ==
    sresult.err = "onChunk" =>
        /\ spc = "returned"
        /\ sresult.text = << >>
        /\ spos > 0
        /\ CarriesFragment(wire.lines[spos])
        /\ delivered = FragmentsOf(SubSeq(wire.lines, 1, spos))

\* the callback failed on the first of two fragments
C24_Witness ==
    /\ sresult.err = "onChunk"
    /\ spos = 1
    /\ Len(wire.lines) = 3
    /\ CarriesFragment(wire.lines[2])
    /\ CarriesFragment(wire.lines[3])
    /\ delivered = <<wire.lines[1].content>>

\* C25: the transport never reads past the first termination token of the
\* body; when it has read the token it has returned, without error, the
\* fragments of the lines before the token, and the callback has been invoked
\* for those fragments and no other.
C25_DoneStopsReading ==
    FirstDone # 0 =>
        /\ spos <= FirstDone
        /\ spos = FirstDone =>
              /\ StreamSucceeded
              /\ sresult.text =
                    Concatenation(FragmentsOf(SubSeq(wire.lines, 1, FirstDone - 1)))
              /\ hasOnChunk =>
                    delivered = FragmentsOf(SubSeq(wire.lines, 1, FirstDone - 1))

\* the token was read with a fragment before it and a fragment after it
C25_Witness ==
    /\ StreamSucceeded
    /\ wire.lines = <<Line("delta", <<"a", "b">>), Line("done", << >>),
                      Line("delta", <<"c", "d">>)>>
    /\ hasOnChunk
    /\ delivered = <<(<<"a", "b">>)>>
    /\ sresult.text = <<"a", "b">>

\* C26: after a response whose status is not 200 the transport has returned
\* the status error with the body of the response and no text, and the
\* callback has not been invoked.
C26_StatusErrorIsFatal ==
    (spc # "start" /\ wire.do = "ok" /\ wire.status # StatusOK) =>
        /\ spc = "returned"
        /\ sresult = StreamResult(<< >>, "status",
                                  [lines |-> wire.lines, tail |-> wire.tail])
        /\ delivered = << >>
        /\ spos = 0

\* a response of status 500 whose body has a delta line was returned as an error
C26_Witness ==
    /\ spc = "returned"
    /\ wire.status = StatusError
    /\ Len(wire.lines) = 2
    /\ CarriesFragment(wire.lines[1])
    /\ sresult.err = "status"
    /\ hasOnChunk


\* the entries of a text that ConsumeContextLog returned
EntriesOf(joined) ==
    [i \in 1..((Len(joined) + 1) \div 2) |-> joined[2 * i - 1]]

\* a step that is a call of ConsumeContextLog which returned entries or emptied
\* the log
DrainStep ==
    /\ turnNo' = turnNo
    /\ <<lpc, iter, toolIdx>>' = <<lpc, iter, toolIdx>>
    /\ <<consumed, contextEntries>>' # <<consumed, contextEntries>>

\* C27: the call that begins a turn empties the context log; a step of a turn
\* leaves the log as it is or appends one entry at its end; a drain returns
\* the entries of the log, in their order and each once, with the separator
\* between them, and empties the log, so that a drain of the empty log returns
\* nothing; and every entry of the log was appended in the current turn, so
\* that no drain returns an entry of an earlier turn.
C27_DrainIsReadAndClear ==
    /\ [][/\ turnNo' # turnNo => contextEntries' = << >>
          /\ DrainStep =>
                /\ EntriesOf(consumed') = contextEntries
                /\ Len(consumed') = 2 * Len(contextEntries) - 1
                      \/ (contextEntries = << >> /\ consumed' = << >>)
                /\ contextEntries' = << >>
          /\ (turnNo' = turnNo /\ ~DrainStep) =>
                \/ contextEntries' = contextEntries
                \/ /\ Len(contextEntries') = Len(contextEntries) + 1
                   /\ SubSeq(contextEntries', 1, Len(contextEntries))
                        = contextEntries]_vars
    /\ [](\A i \in DOMAIN contextEntries : contextEntries[i].at = turnNo)

\* in the second turn, after two shell commands of that turn were recorded and
\* a first drain had returned the first of them, a drain returned the second
C27_Witness ==
    /\ turnNo = 2
    /\ iter = 2
    /\ contextEntries = << >>
    /\ Len(consumed) = 1
    /\ consumed[1].at = 2
    /\ consumed[1].kind = "execute_command"


----------------------------------------------------------------------------
\* Cancellation, the message list and the progress text of a turn

\* C28: once the caller's ctx is done while the turn has not ended, the next
\* model call fails and ends the turn, and a turn that has ended after its ctx
\* became done has ended with an error and without an answer.
C28_CancelledTurnFails ==
    /\ [][(cancelled /\ lpc = "model") =>
              (lpc' = "done" /\ turn' = TurnResult("", "chatFailed"))]_vars
    /\ []((cancelled /\ lpc = "done") => (TurnFailed /\ turn.answer = ""))

\* ctx became done while a capability of the first response was executing, and
\* the second model call ended the turn
C28_Witness ==
    /\ cancelled
    /\ lpc = "done"
    /\ turn = TurnResult("", "chatFailed")
    /\ iter = 1
    /\ modelCalls = 2
    /\ Reported(ResultKilled)

\* whether the list a is the beginning of the list b
IsPrefix(a, b) == Len(a) <= Len(b) /\ SubSeq(b, 1, Len(a)) = a

\* C29: the message list of a turn begins with a system message, then has the
\* conversation history as it was given, then the user message with the
\* request; and every step of the turn leaves the list as it is or appends to
\* it, so that the list of each model call begins with the list of the one
\* before.
C29_MessagesAppendOnly ==
    /\ [](/\ Len(messages) >= Len(conversationHistory) + 2
          /\ messages[1].Role = "system"
          /\ SubSeq(messages, 2, Len(conversationHistory) + 1)
                = conversationHistory
          /\ messages[Len(conversationHistory) + 2]
                = Message("user", "request", << >>, NoID))
    /\ [][IsPrefix(messages, messages')]_vars

\* a turn with a history is about to make its second model call, with the
\* assistant message and the tool message of the first iteration appended
C29_Witness ==
    /\ AwaitingNextModelCall
    /\ conversationHistory # << >>
    /\ Len(messages) = Len(conversationHistory) + 4
    /\ messages[Len(messages)].Role = "tool"

\* the chunks a step hands to onChunk
NewChunks == SubSeq(emitted', Len(emitted) + 1, Len(emitted'))

\* the contents of the tool messages that report a failure
FailureContents == {"parseError", "notFound", "execFailed"}

\* C30: for every tool call the loop sets out to invoke (every call of type
\* function), the name is handed to the callback before the capability is
\* executed, and when the processing of the call ends exactly one marker
\* follows: the failure marker when the tool message reports a parse error,
\* an unknown capability or a failed execution, the success marker otherwise.
\* Whatever the callback returns for this text, the turn goes on with the next
\* tool call.
C30_ProgressTextAroundInvocation ==
    [][(lpc \in {"tools", "exec"} /\ toolIdx <= Len(choice.ToolCalls)
            /\ choice.ToolCalls[toolIdx].Type = "function") =>
          LET toolCall == choice.ToolCalls[toolIdx]
              name == Chunk("tool", toolCall.Name)
              last == messages'[Len(messages')]
          IN  /\ turn' = turn
              /\ lpc = "tools" =>
                    \/ /\ lpc' = "exec"
                       /\ NewChunks = <<name>>
                       /\ executed' = Append(executed, toolCall.ID)
                       /\ toolIdx' = toolIdx
                    \/ /\ lpc' = "tools"
                       /\ toolIdx' = toolIdx + 1
                       /\ executed' = executed
                       /\ Len(NewChunks) = 2
                       /\ NewChunks[1] = name
                       /\ NewChunks[2].kind = "failed"
                       /\ last.Content \in {"parseError", "notFound"}
              /\ lpc = "exec" =>
                    /\ lpc' = "tools"
                    /\ toolIdx' = toolIdx + 1
                    /\ emitted[Len(emitted)] = name
                    /\ Len(NewChunks) = 1
                    /\ NewChunks[1].kind \in {"failed", "succeeded"}
                    /\ NewChunks[1].kind = "failed"
                          <=> last.Content \in FailureContents]_vars

\* a callback that returns an error for all progress text was handed the name
\* and the success marker of an invocation in each of two iterations, and the
\* turn then ended in its final answer
C30_Witness ==
    /\ FinalAnswer
    /\ onChunkErr = "progress"
    /\ turn.answer = "answer"
    /\ iter = 2
    /\ \E k \in DOMAIN emitted : emitted[k].kind = "succeeded"

----------------------------------------------------------------------------
\* A failing handler (dag.go, Node.Execute)

\* the handler of n, invoked by a goroutine of Execute or by a direct caller
\* of Node.Execute, returns in this step
HandlerReturns(n) ==
    \/ gstate[n] = "running" /\ gstate'[n] = "finished"
    \/ xstate[n] = "running" /\ xstate'[n] = "idle"

\* C32: in the step in which a failing handler returns, the status of its node
\* becomes failed, the node's error becomes the handler's error and the node's
\* output stays as it was; the error that Node.Execute hands to the goroutine
\* of Execute, which sends it on, is the failure wrapped with the node's id;
\* and a node failure that Execute returns names a failed node holding its
\* handler's error.
C32_HandlerFailureRecorded ==
    /\ [][\A n \in nodes :
             (HandlerReturns(n) /\ handler[n].kind = "fail") =>
                 /\ status[n] = NodeStatusRunning
                 /\ status'[n] = NodeStatusFailed
                 /\ nodeError'[n] = "handlerError"
                 /\ output'[n] = output[n]
                 /\ gstate[n] = "running" =>
                        errChan' = Append(errChan, Err("nodeFailed", n))]_vars
    /\ [](pc = "done" /\ result.err \in {"nodeFailed", "handlerError"} =>
             /\ result.err = "nodeFailed"
             /\ result.node \in nodes
             /\ handler[result.node].kind = "fail"
             /\ status[result.node] = NodeStatusFailed
             /\ nodeError[result.node] = "handlerError")

\* Execute has returned the failure of node 2, whose handler failed after the
\* handler of node 1, which node 2 depends on, had filled node 1's output
C32_Witness ==
    /\ pc = "done"
    /\ result = Err("nodeFailed", 2)
    /\ deps[2] = <<1>>
    /\ status[1] = NodeStatusCompleted /\ output[1] # EmptyMap
    /\ status[2] = NodeStatusFailed
    /\ nodeError[2] = "handlerError"
    /\ output[2] = EmptyMap

C35_HandlerInvokedAtMostOnce ==
    /\ [](\A n \in nodes : calls[n] <= 1)
    /\ [][\A n \in nodes :
             calls'[n] # calls[n] =>
                 /\ calls[n] = 0
                 /\ status[n] = NodeStatusPending
                 /\ status'[n] = NodeStatusRunning]_vars

\* a later Execute call is polling a graph of two nodes whose handlers have
\* each been invoked once, and no Node.Execute call is in progress
C35_Witness ==
    /\ pc = "sleep"
    /\ completed = 0
    /\ nodes = {1, 2}
    /\ \A n \in nodes :
        /\ calls[n] = 1
        /\ status[n] \in {NodeStatusCompleted, NodeStatusFailed}
        /\ gstate[n] = "none"
        /\ xstate[n] = "idle"

----------------------------------------------------------------------------
\* A parallelism of 0 (dag.go, NewDAG and executeNodes)

\* a valid graph of at least one node under a parallelism of 0
ZeroParallelism ==
    /\ parallelNum = 0
    /\ nodes # {}
    /\ Validate(Asc(nodes)) = "nil"

\* C36 as claimed: with a parallelism of 0 and a valid graph of at least one
\* node, Execute never returns.
C36_NeverReturns == ZeroParallelism => pc # "done"

\* C36 as amended: with a parallelism of 0 and a valid graph of at least one
\* node, no handler is ever invoked and no node leaves its status; Execute
\* returns only if the context is done at the first pass of the loop, with the
\* context's error and nothing launched; and once Execute has launched the
\* first batch it stays in wg.Wait() in every step, with every goroutine before
\* the semaphore, also when the context is done.
C36_BlocksOnceLaunched ==
    /\ [](ZeroParallelism =>
             /\ \A n \in nodes : calls[n] = 0 /\ status[n] = NodeStatusPending
             /\ pc = "done" => result = Err("ctx", 0) /\ Launched = {}
             /\ Launched # {} =>
                    /\ pc = "wait"
                    /\ \A n \in Launched : gstate[n] = "spawned")
    /\ [][ZeroParallelism /\ pc = "wait" => pc' = "wait"]_vars

\* under a parallelism of 0 Execute has launched two nodes and waits for them,
\* the context is done, and both goroutines are before the semaphore
C36_Witness ==
    /\ ZeroParallelism
    /\ pc = "wait"
    /\ ctxDone
    /\ Cardinality(Launched) = 2
    /\ \A n \in Launched : gstate[n] = "spawned" /\ status[n] = NodeStatusPending

----------------------------------------------------------------------------
\* Execute on a graph that has been executed (dag.go, executeNodes)

\* an Execute call is under way, or has returned, that found every node
\* completed and has launched nothing
Rerun ==
    /\ pc # "idle"
    /\ \A n \in nodes : IsCompleted(n)
    /\ Launched = {}

\* C37 as claimed: an Execute call on a graph whose nodes are all completed
\* does not return success.
C37_RerunNeverSucceeds == (Rerun /\ pc = "done") => result # Success

\* C37 as amended: an Execute call on a graph of at least one node whose nodes
\* are all completed invokes no handler, launches nothing and changes no
\* status; it is in its loop or asleep until it returns, returns only when the
\* context is done, with the context's error, and, the deadline passing, it
\* does return.
C37_RerunPollsUntilDeadline ==
    /\ [](Rerun /\ nodes # {} =>
             /\ pc \in {"loop", "sleep", "done"}
             /\ pc = "done" => ctxDone /\ result = Err("ctx", 0))
    /\ [][Rerun /\ nodes # {} =>
             /\ calls' = calls
             /\ status' = status
             /\ Launched' = {}]_vars
    /\ (Rerun /\ nodes # {}) ~> (pc = "done")

\* an Execute call on a graph of two nodes, both completed by handlers invoked
\* earlier, has launched nothing and has returned the context's error
C37_Witness ==
    /\ Rerun
    /\ pc = "done"
    /\ result = Err("ctx", 0)
    /\ nodes = {1, 2}
    /\ \A n \in nodes : calls[n] = 1 /\ output[n] # EmptyMap

----------------------------------------------------------------------------
\* What the streaming transport returns (stream.go)

EndedWithoutDone ==
    /\ wire.do = "ok"
    /\ wire.status = StatusOK
    /\ wire.ending = "eof"
    /\ FirstDone = 0

\* C40: the pass of the read loop that finds the end of the body returns
\* success with the text accumulated, and changes neither the text nor the
\* callbacks made; so when a body has ended without the termination token, the
\* transport has returned success with the concatenation of the fragments of
\* the lines that ended in a newline, the callback has been handed those
\* fragments and no other, and what came after the last newline is in neither.
C40_UnterminatedLastLineDropped ==
    /\ [][(spc = "reading" /\ spos = Len(wire.lines) /\ wire.ending = "eof") =>
             /\ spc' = "returned"
             /\ sresult' = StreamResult(fullContent, "nil", NoBody)
             /\ fullContent' = fullContent
             /\ delivered' = delivered]_vars
    /\ []((spc = "returned" /\ EndedWithoutDone) =>
             /\ sresult.err = "nil" \/ sresult.err = "onChunk"
             /\ sresult.err = "nil" =>
                    /\ spos = Len(wire.lines)
                    /\ sresult.text = Concatenation(FragmentsOf(wire.lines))
                    /\ hasOnChunk => delivered = FragmentsOf(wire.lines))

\* a body of the line cd and, after its newline, the delta ab without a
\* newline: the transport returned cd, and the callback was handed cd only
C40_Witness ==
    /\ StreamSucceeded
    /\ EndedWithoutDone
    /\ hasOnChunk
    /\ wire.lines = <<Line("delta", <<"c", "d">>)>>
    /\ wire.tail = Line("delta", <<"a", "b">>)
    /\ sresult.text = <<"c", "d">>
    /\ delivered = <<(<<"c", "d">>)>>

----------------------------------------------------------------------------
\* The handlers of executeWithDAG and their input (agent.go)

\* C38: the handler of every node that has been invoked found in its input
\* every key it reads.
C38_HandlersFindTheirKeys ==
    \A n \in nodes :
        calls[n] = 1 => ReadsOf(handler[n].kind) \subseteq DOMAIN inputCopy[n]

----------------------------------------------------------------------------
\* The entry of a shell command (context.go, recordToolCallContext)

\* the texts of the args of a call, as the caller gave them
GivenArgs(raw) ==
    CASE raw.type = "null" -> << >>
      [] raw.type = "array" -> [i \in DOMAIN raw.items |-> raw.items[i].text]
      [] OTHER -> <<raw.text>>

\* a list of texts without the empty ones
RECURSIVE WithoutEmpty(_)
WithoutEmpty(texts) ==
    IF texts = << >> THEN << >>
    ELSE IF Head(texts) = << >> THEN WithoutEmpty(Tail(texts))
    ELSE <<Head(texts)>> \o WithoutEmpty(Tail(texts))

\* a command and args, joined with spaces
Joined(command, args) ==
    IF args = << >> THEN command ELSE command \o <<" ">> \o JoinSpace(args)

\* the outcome the claim gives an entry: the error text when Execute returned
\* an error or the result has an error text, the success flag otherwise
ClaimedOutcome ==
    IF recArg.res.err THEN <<" | error=">> \o recArg.res.errText
    ELSE IF recArg.res.result.error # << >>
    THEN <<" | error=">> \o recArg.res.result.error
    ELSE <<" | success=", IF recArg.res.result.success THEN "true" ELSE "false">>

\* recordToolCallContext has returned and has appended an entry
Recorded == recArg.pc = "returned" /\ contextEntries # << >>

\* C31 as claimed: an entry recorded for a call holds the command as it was
\* given, followed by the args as they were given, joined with spaces, and the
\* outcome.
C31_EntryHoldsLiteralCommandLine ==
    Recorded =>
        contextEntries[1].content =
            Joined(Param(recArg.params, "command").text,
                   GivenArgs(Param(recArg.params, "args")))
                \o ClaimedOutcome

\* C31 as amended: recordToolCallContext appends at most one entry, of kind
\* execute_command; the entry holds the command without the white space
\* around it, followed by the args that are not empty (a single string that
\* is blank is no arg), joined with spaces, and the outcome: the error text
\* when Execute returned an error or the result has an error text, the
\* success flag otherwise.
C31_EntryHoldsTrimmedCommandLine ==
    Recorded =>
        /\ Len(contextEntries) = 1
        /\ contextEntries[1].kind = "execute_command"
        /\ recArg.toolName = "execute_command"
        /\ contextEntries[1].content =
            Joined(TrimSpace(Param(recArg.params, "command").text),
                   LET args == Param(recArg.params, "args") IN
                   IF args.type = "string" /\ TrimSpace(args.text) = << >>
                   THEN << >>
                   ELSE WithoutEmpty(GivenArgs(args)))
                \o ClaimedOutcome

\* the command " ls " with the args -l, "" and 7 failed with exit status 1:
\* the entry is "ls -l 7 | error=exit status 1", without the success flag,
\* which is false
C31_Witness ==
    /\ Recorded
    /\ Param(recArg.params, "command") = Str(<<" ", "ls", " ">>)
    /\ Param(recArg.params, "args") = Arr(<<Str(<<"-l">>), Str(<< >>), Num(<<"7">>)>>)
    /\ recArg.res = ToolResult(FALSE, <<"exit status 1">>)
    /\ contextEntries[1].content =
          <<"ls", " ", "-l", " ", "7", " | error=", "exit status 1">>

----------------------------------------------------------------------------
\* The context log under concurrent callers (context.go)

\* the entries of the texts returned so far, in the order of the returns
RECURSIVE ReturnedEntries(_)
ReturnedEntries(texts) ==
    IF texts = << >> THEN << >>
    ELSE EntriesOf(Head(texts)) \o ReturnedEntries(Tail(texts))

\* the place of an entry among the entries appended
AppendedAt(entry) ==
    CHOOSE i \in DOMAIN logHistory.appended : logHistory.appended[i] = entry

\* C33: whatever the goroutines do, every text that ConsumeContextLog has
\* returned is made of whole entries that were appended, with the separator
\* between them, in the order in which they were appended; and no entry is in
\* two of the texts returned or twice in one.
C33_EntriesReturnedOnceInOrder ==
    /\ \A k \in DOMAIN logHistory.returned :
        LET text == logHistory.returned[k]
            entries == EntriesOf(text)
        IN  /\ entries # << >>
            /\ text = Join(entries)
            /\ \A i \in DOMAIN entries :
                   entries[i] \in Range(logHistory.appended)
            /\ \A i, j \in DOMAIN entries :
                   i < j => AppendedAt(entries[i]) < AppendedAt(entries[j])
    /\ LET all == ReturnedEntries(logHistory.returned)
       IN  \A i, j \in DOMAIN all : i # j => all[i] # all[j]

\* a ConsumeContextLog call has returned two entries, which were appended e2
\* before e1; now one goroutine appends under the mutex while another waits
\* for the mutex in ConsumeContextLog
C33_Witness ==
    /\ Len(logHistory.returned) = 1
    /\ EntriesOf(logHistory.returned[1]) =
          <<Entry("execute_command", <<"e2">>), Entry("execute_command", <<"e1">>)>>
    /\ \E g, h \in Goroutines :
        /\ mutex = g
        /\ goroutines[g].pc = "append"
        /\ goroutines[h].pc = "consume.lock"

====
